---- MODULE Spec2Model ----
(***************************************************************************)
(* Risk fusion and graduated response controller.                          *)
(*                                                                         *)
(* Model of AutonomousResponseAgent (src/src/autonomous_response_agent.py) *)
(* with its collaborators: the fusion function combine_risks, the          *)
(* AlertSystem, the EC2 security group the agent edits, and the two        *)
(* monitoring drivers (AutonomousResponseAgent.run_monitoring_cycle and    *)
(* EnhancedThreatDetectionSystemWithAgent.run_detection_cycle).            *)
(*                                                                         *)
(* Conventions                                                             *)
(*   - a risk is an integer number of thousandths (0.8 is 800);            *)
(*   - a time is an integer number of minutes; the clock advances in       *)
(*     steps of TickMinutes; every datetime.now() of one call reads the    *)
(*     same instant;                                                       *)
(*   - a method of the agent is an operator from the object (a record of   *)
(*     its fields, the security group it talks to, the external calls it   *)
(*     has made and its return value) to the object after the call.        *)
(***************************************************************************)
EXTENDS Integers, Sequences, FiniteSets, TLC

\* ------------------------------------------------------------------ bounds

StartTime == 50         \* the wall clock when the agent is constructed
MaxTime == 65           \* the clock stops advancing here
TickMinutes == 5        \* granularity of the clock
MaxAlerts == 3          \* cap on the length of an alert history
MaxNet == 2             \* cap on the length of a network-signal list
MaxUser == 1            \* cap on the length of a behaviour-signal list
MaxCycles == 1          \* cap on the number of monitoring cycles
MaxLoopCycles == 2      \* the same cap for the loop of start()
MaxReports == 1         \* alerts after which a long run reports no entity

\* --------------------------------------------------------------- constants

block_timeout_minutes == 10
default_monitoring_interval == 60
MinutesPerHour == 60

\* config["rate_limiting"]["max_emails_per_hour"] of the configuration under
\* test: the file config/alert_config.json overrides the default of 10, and
\* the rate-limit scenario runs with 2.
max_emails_per_hour == 2

\* ------------------------------------------------------------------ inputs

\* The entities signals are reported for: the name IDSEngine.detect reports
\* the monitored instance under, and a source address.
Entities == {"EC2_INSTANCE", "10.0.0.2"}

\* risk_score values the host hands to take_action: a LOW and a HIGH one
\* (values of test_response_actions), next to the fused risk of RiskPairs,
\* which is CRITICAL ...
RiskScores == {250, 700}

\* ... and, for the action table, both sides of every threshold with values
\* outside [0, 1], all for one entity.
BandRiskScores == {-100, 399, 400, 599, 600, 799, 800, 1200}
BandEntities == {"EC2_INSTANCE"}

\* (network_risk, user_risk) pairs of a direct take_action call.
RiskPairs == {<<950, 800>>}

\* Deny rules a previous run of the agent may have left in the security
\* group: the registry is in memory, the rules are not.
StaleRules == {{}, {"10.0.0.2"}}

\* (network_risk, user_risk) pairs of the alerts handed to the alert system
\* alone: they fuse to 0.35 (LOW), to 0.6 (MEDIUM, on the email threshold) and
\* to 0.89 (CRITICAL).
AlertPairs == {<<50, 800>>, <<1000, 0>>, <<950, 800>>}

\* (network_risk, user_risk) pairs handed to the fusion function alone: the
\* tenths of [0, 1].
FusionGrid == {<<100 * i, 100 * j>> : i, j \in 0..10}

\* The scenarios of test_threat_scenarios.
Scenarios ==
    {[ip |-> "203.0.113.1", network_risk |-> 980, user_risk |-> 750],
     [ip |-> "192.0.2.5", network_risk |-> 450, user_risk |-> 920],
     [ip |-> "198.51.100.10", network_risk |-> 650, user_risk |-> 500],
     [ip |-> "EC2_INSTANCE", network_risk |-> 350, user_risk |-> 250],
     [ip |-> "10.0.10.50", network_risk |-> 150, user_risk |-> 650]}

\* What the signal collaborators report.
NetRisks == {50, 950}
UserRisks == {100, 800}

RECURSIVE ListsOf(_, _)
\* The lists of at most n elements of S.
ListsOf(S, n) ==
    IF n = 0 THEN {<<>>}
    ELSE LET shorter == ListsOf(S, n - 1)
         IN shorter \cup {Append(l, x) : l \in shorter, x \in S}

NetEntry == [ip : Entities, network_risk : NetRisks]
UserEntry == [ip : Entities, user_risk : UserRisks]

\* detect() of the ids_engine handed to run_monitoring_cycle: raises, or
\* returns a list of network entries.
IdsOutcomes ==
    {[raised |-> TRUE, items |-> <<>>]}
        \cup {[raised |-> FALSE, items |-> l] : l \in ListsOf(NetEntry, MaxNet)}

\* IDSEngine.detect(), the engine of the detection system: a CloudWatch call
\* raises, or the one entry of the monitored instance with the risk of its
\* traffic.
IDSEngineRisks == {50, 600, 850, 950}
IDSEngineOutcomes ==
    {[raised |-> TRUE, items |-> <<>>]}
        \cup {[raised |-> FALSE, items |-> <<[ip |-> "EC2_INSTANCE", network_risk |-> r]>>] :
                    r \in IDSEngineRisks}

\* ueba_engine.detect(): raises, or returns a list of behaviour entries.
UebaOutcomes ==
    {[raised |-> TRUE, items |-> <<>>]}
        \cup {[raised |-> FALSE, items |-> l] : l \in ListsOf(UserEntry, MaxUser)}

\* ------------------------------------------------------------------- state

VARIABLES
    now,                \* datetime.now(), in minutes
    monitoring_interval, \* agent.monitoring_interval, in seconds
    blocked_ips,        \* agent.blocked_ips: insertion-ordered dict, as a sequence of [key, value]
    rate_limited_ips,   \* agent.rate_limited_ips: dict ip -> datetime
    alert_history,      \* agent.alert_history: list of alert dicts
    stats,              \* agent.stats
    sg_rules,           \* the deny rules of the security group (held by EC2)
    last_call,          \* the last completed call on the agent, its return value and its EC2 calls
    as_alert_history,   \* alert_system.alert_history: list of Alert
    last_email,         \* what the last create_alert did about its email
    as_last_call,       \* the last completed call on the alert system and its return value
    pc,                 \* where the monitoring loop stands
    driver,             \* which loop runs in this process: agent.start or system.run
    network_results,    \* local of the running cycle
    user_results,       \* local of the running cycle
    idx,                \* position of the for loop in network_results
    cycle,              \* what the running (or last) cycle has done so far
    cycle_count,        \* cycles started
    error_log,          \* the errors the cycle functions have logged, oldest first
    fusion,             \* the last call of the fusion function: its arguments and its result
    system_stats,       \* EnhancedThreatDetectionSystemWithAgent.stats
    threads             \* where each thread of the host stands inside a call on the agent

agent_vars == <<blocked_ips, rate_limited_ips, alert_history, stats, sg_rules, last_call>>
alert_vars == <<as_alert_history, last_email, as_last_call>>
cycle_vars == <<pc, driver, network_results, user_results, idx, cycle, cycle_count, error_log,
                fusion, system_stats>>
vars == <<now, monitoring_interval, blocked_ips, rate_limited_ips, alert_history, stats, sg_rules, last_call,
          as_alert_history, last_email, as_last_call,
          pc, driver, network_results, user_results, idx, cycle, cycle_count, error_log,
          fusion, system_stats, threads>>

\* The threads of a host that shares the agent between two of them, and a
\* thread that is not inside a call.
Threads == {"t1", "t2"}
Ready == [pc |-> "ready", ip |-> "", risk_score |-> 0, current_time |-> 0, used |-> 0,
          pos |-> 0, expired_ips |-> <<>>]

\* -------------------------------------------------------------- Python dict

Range(s) == {s[i] : i \in 1..Len(s)}

\* An insertion-ordered dict is a sequence of [key, value] entries.
DictKeys(d) == [i \in 1..Len(d) |-> d[i].key]

DictHas(d, k) == \E i \in 1..Len(d) : d[i].key = k

DictGet(d, k) == d[CHOOSE i \in 1..Len(d) : d[i].key = k].value

\* d[k] = v: an existing key keeps its position, a new key goes last.
DictSet(d, k, v) ==
    IF DictHas(d, k)
    THEN [i \in 1..Len(d) |-> IF d[i].key = k THEN [key |-> k, value |-> v] ELSE d[i]]
    ELSE Append(d, [key |-> k, value |-> v])

\* d.pop(k)
DictPop(d, k) ==
    LET keep(e) == e.key # k IN SelectSeq(d, keep)

\* ------------------------------------------------------------ fusion engine

\* The rounding of (0.6 * network_risk) + (0.4 * user_risk) in binary
\* floating point, where it matters: a sum whose exact value is a threshold
\* may come out just beside it. One thousandth stands for the difference
\* (the exact sums of the risks fused here are multiples of 0.01). Of the
\* risks of FusionGrid and of the signal values, two sums are off:
\* 0.6 * 0.4 + 0.4 * 0.9 is 0.6000000000000001 and 0.6 * 0.2 + 0.4 * 0.7 is
\* 0.39999999999999997.
RoundingError(network_risk, user_risk) ==
    IF <<network_risk, user_risk>> = <<400, 900>> THEN 1
    ELSE IF <<network_risk, user_risk>> = <<200, 700>> THEN -1
    ELSE 0

\* Mutant: the two weights are exchanged.
combine_risks_swapped(network_risk, user_risk) ==
    LET final_risk == (4 * network_risk + 6 * user_risk) \div 10
    IN [final_risk |-> final_risk,
        level |-> IF final_risk > 800 THEN "CRITICAL"
                  ELSE IF final_risk > 600 THEN "HIGH"
                  ELSE IF final_risk > 400 THEN "MEDIUM"
                  ELSE "LOW"]

\* Mutant: the thresholds of the fusion levels are inclusive.
combine_risks_inclusive(network_risk, user_risk) ==
    LET final_risk == (6 * network_risk + 4 * user_risk) \div 10
                        + RoundingError(network_risk, user_risk)
    IN [final_risk |-> final_risk,
        level |-> IF final_risk >= 800 THEN "CRITICAL"
                  ELSE IF final_risk >= 600 THEN "HIGH"
                  ELSE IF final_risk >= 400 THEN "MEDIUM"
                  ELSE "LOW"]

combine_risks(network_risk, user_risk) ==
    LET final_risk == (6 * network_risk + 4 * user_risk) \div 10
                        + RoundingError(network_risk, user_risk)
    IN [final_risk |-> final_risk,
        level |-> IF final_risk > 800 THEN "CRITICAL"
                  ELSE IF final_risk > 600 THEN "HIGH"
                  ELSE IF final_risk > 400 THEN "MEDIUM"
                  ELSE "LOW"]

\* --------------------------------------------------------------- EC2 client

\* ec2_client.authorize_security_group_ingress: `up` says whether the call
\* reaches EC2 and is authorised; a rule that is already there is answered
\* InvalidPermission.Duplicate. A failed call changes nothing.
authorize_security_group_ingress(rules, ip, up) ==
    IF ~up THEN [result |-> "Error", rules |-> rules]
    ELSE IF ip \in rules THEN [result |-> "InvalidPermission.Duplicate", rules |-> rules]
    ELSE [result |-> "Ok", rules |-> rules \cup {ip}]

\* ec2_client.revoke_security_group_ingress: a rule that is not there is
\* answered InvalidPermission.NotFound.
revoke_security_group_ingress(rules, ip, up) ==
    IF ~up THEN [result |-> "Error", rules |-> rules]
    ELSE IF ip \notin rules THEN [result |-> "InvalidPermission.NotFound", rules |-> rules]
    ELSE [result |-> "Ok", rules |-> rules \ {ip}]

\* -------------------------------------------------- AutonomousResponseAgent

\* Mutant: the entry does not record the entity it is stored under.
BlockedIP_anonymous(ip, t, risk_score) ==
    [ip_address |-> "", blocked_at |-> t, risk_score |-> risk_score,
     reason |-> "Critical threat"]

BlockedIP(ip, t, risk_score) ==
    [ip_address |-> ip, blocked_at |-> t, risk_score |-> risk_score,
     reason |-> "Critical threat"]

\* The object as its methods see it.
Self ==
    [blocked_ips |-> blocked_ips, rate_limited_ips |-> rate_limited_ips,
     alert_history |-> alert_history, stats |-> stats,
     sg_rules |-> sg_rules, calls |-> <<>>, ret |-> "None"]

\* Mutant: the agent classifies with the strict thresholds of the fusion
\* engine.
assess_threat_level_strict(risk_score) ==
    IF risk_score > 800 THEN "CRITICAL"
    ELSE IF risk_score > 600 THEN "HIGH"
    ELSE IF risk_score > 400 THEN "MEDIUM"
    ELSE "LOW"

assess_threat_level(risk_score) ==
    IF risk_score >= 800 THEN "CRITICAL"
    ELSE IF risk_score >= 600 THEN "HIGH"
    ELSE IF risk_score >= 400 THEN "MEDIUM"
    ELSE "LOW"

\* Mutant: a logged threat is counted as an alert.
log_threat_counted(self, ip, risk_score, network_risk, user_risk) ==
    [self EXCEPT !.stats.total_alerts = @ + 1]

\* Writes a log line; the object is untouched.
log_threat(self, ip, risk_score, network_risk, user_risk) == self

send_alert(self, t, ip, risk_score, network_risk, user_risk, threat_level) ==
    [self EXCEPT
        !.alert_history = Append(@, [timestamp |-> t, ip_address |-> ip,
                                     risk_score |-> risk_score,
                                     network_risk |-> network_risk,
                                     user_risk |-> user_risk,
                                     threat_level |-> threat_level,
                                     action |-> "ALERT_SENT"]),
        !.stats.total_alerts = @ + 1]

\* Mutant: an entity that is rate limited already keeps its first timestamp.
simulate_rate_limiting_first(self, t, ip, risk_score) ==
    [self EXCEPT
        !.rate_limited_ips = [x \in (DOMAIN @) \cup {ip} |->
                                IF x \in DOMAIN @ THEN @[x] ELSE t],
        !.stats.total_rate_limits = @ + 1]

\* Mutant: the rate limit is recorded but not counted.
simulate_rate_limiting_uncounted(self, t, ip, risk_score) ==
    [self EXCEPT
        !.rate_limited_ips = [x \in (DOMAIN @) \cup {ip} |-> IF x = ip THEN t ELSE @[x]]]

simulate_rate_limiting(self, t, ip, risk_score) ==
    [self EXCEPT
        !.rate_limited_ips = [x \in (DOMAIN @) \cup {ip} |-> IF x = ip THEN t ELSE @[x]],
        !.stats.total_rate_limits = @ + 1]

\* Mutant: the "already blocked" test is missing.
block_ip_address_unguarded(self, t, ip, risk_score, network_risk, user_risk, up) ==
    LET r == authorize_security_group_ingress(self.sg_rules, ip, up)
        called == [self EXCEPT !.calls = Append(@, <<"authorize", ip>>),
                               !.sg_rules = r.rules]
    IN IF r.result = "Ok"
       THEN [called EXCEPT
               !.blocked_ips = DictSet(@, ip, BlockedIP(ip, t, risk_score)),
               !.stats.total_blocks = @ + 1,
               !.ret = "True"]
       ELSE [called EXCEPT !.ret = "False"]

\* Mutant: a successful block is not counted.
block_ip_address_uncounted(self, t, ip, risk_score, network_risk, user_risk, up) ==
    IF DictHas(self.blocked_ips, ip)
    THEN [self EXCEPT !.ret = "False"]
    ELSE LET r == authorize_security_group_ingress(self.sg_rules, ip, up)
             called == [self EXCEPT !.calls = Append(@, <<"authorize", ip>>),
                                    !.sg_rules = r.rules]
         IN IF r.result = "Ok"
            THEN [called EXCEPT
                    !.blocked_ips = DictSet(@, ip, BlockedIP(ip, t, risk_score)),
                    !.ret = "True"]
            ELSE [called EXCEPT !.ret = "False"]

\* Mutant: a duplicate rule is taken for a successful block.
block_ip_address_duplicate_ok(self, t, ip, risk_score, network_risk, user_risk, up) ==
    IF DictHas(self.blocked_ips, ip)
    THEN [self EXCEPT !.ret = "False"]
    ELSE LET r == authorize_security_group_ingress(self.sg_rules, ip, up)
             called == [self EXCEPT !.calls = Append(@, <<"authorize", ip>>),
                                    !.sg_rules = r.rules]
         IN IF r.result \in {"Ok", "InvalidPermission.Duplicate"}
            THEN [called EXCEPT
                    !.blocked_ips = DictSet(@, ip, BlockedIP(ip, t, risk_score)),
                    !.stats.total_blocks = @ + 1,
                    !.ret = "True"]
            ELSE [called EXCEPT !.ret = "False"]

\* Mutant: a CRITICAL call for a blocked entity refreshes its entry.
block_ip_address_refresh(self, t, ip, risk_score, network_risk, user_risk, up) ==
    IF DictHas(self.blocked_ips, ip)
    THEN [self EXCEPT !.blocked_ips = DictSet(@, ip, BlockedIP(ip, t, risk_score)),
                      !.ret = "False"]
    ELSE LET r == authorize_security_group_ingress(self.sg_rules, ip, up)
             called == [self EXCEPT !.calls = Append(@, <<"authorize", ip>>),
                                    !.sg_rules = r.rules]
         IN IF r.result = "Ok"
            THEN [called EXCEPT
                    !.blocked_ips = DictSet(@, ip, BlockedIP(ip, t, risk_score)),
                    !.stats.total_blocks = @ + 1,
                    !.ret = "True"]
            ELSE [called EXCEPT !.ret = "False"]

\* block_ip_address refusing an entity once a block has been reversed.
block_ip_address_once(self, t, ip, risk_score, network_risk, user_risk, up) ==
    IF DictHas(self.blocked_ips, ip) \/ self.stats.total_unblocks > 0
    THEN [self EXCEPT !.ret = "False"]
    ELSE LET r == authorize_security_group_ingress(self.sg_rules, ip, up)
             called == [self EXCEPT !.calls = Append(@, <<"authorize", ip>>),
                                    !.sg_rules = r.rules]
         IN IF r.result = "Ok"
            THEN [called EXCEPT
                    !.blocked_ips = DictSet(@, ip, BlockedIP(ip, t, risk_score)),
                    !.stats.total_blocks = @ + 1,
                    !.ret = "True"]
            ELSE [called EXCEPT !.ret = "False"]

block_ip_address(self, t, ip, risk_score, network_risk, user_risk, up) ==
    IF DictHas(self.blocked_ips, ip)
    THEN [self EXCEPT !.ret = "False"]
    ELSE LET r == authorize_security_group_ingress(self.sg_rules, ip, up)
             called == [self EXCEPT !.calls = Append(@, <<"authorize", ip>>),
                                    !.sg_rules = r.rules]
         IN IF r.result = "Ok"
            THEN [called EXCEPT
                    !.blocked_ips = DictSet(@, ip, BlockedIP(ip, t, risk_score)),
                    !.stats.total_blocks = @ + 1,
                    !.ret = "True"]
            ELSE [called EXCEPT !.ret = "False"]

\* Mutant: the "not in blocked list" test is missing.
unblock_ip_address_unguarded(self, ip, up) ==
    LET r == revoke_security_group_ingress(self.sg_rules, ip, up)
        called == [self EXCEPT !.calls = Append(@, <<"revoke", ip>>),
                               !.sg_rules = r.rules]
    IN IF r.result = "Ok"
       THEN [called EXCEPT
               !.blocked_ips = DictPop(@, ip),
               !.stats.total_unblocks = @ + 1,
               !.ret = "True"]
       ELSE [called EXCEPT !.ret = "False"]

\* Mutant: a successful unblock is not counted.
unblock_ip_address_uncounted(self, ip, up) ==
    IF ~DictHas(self.blocked_ips, ip)
    THEN [self EXCEPT !.ret = "False"]
    ELSE LET r == revoke_security_group_ingress(self.sg_rules, ip, up)
             called == [self EXCEPT !.calls = Append(@, <<"revoke", ip>>),
                                    !.sg_rules = r.rules]
         IN IF r.result = "Ok"
            THEN [called EXCEPT !.blocked_ips = DictPop(@, ip), !.ret = "True"]
            ELSE [called EXCEPT !.ret = "False"]

\* Mutant: a rule that EC2 does not find counts as unblocked.
unblock_ip_address_notfound_ok(self, ip, up) ==
    IF ~DictHas(self.blocked_ips, ip)
    THEN [self EXCEPT !.ret = "False"]
    ELSE LET r == revoke_security_group_ingress(self.sg_rules, ip, up)
             called == [self EXCEPT !.calls = Append(@, <<"revoke", ip>>),
                                    !.sg_rules = r.rules]
         IN IF r.result \in {"Ok", "InvalidPermission.NotFound"}
            THEN [called EXCEPT
                    !.blocked_ips = DictPop(@, ip),
                    !.stats.total_unblocks = @ + 1,
                    !.ret = "True"]
            ELSE [called EXCEPT !.ret = "False"]

\* Mutant: the unblock is counted before EC2 is asked, also when the revoke
\* fails.
unblock_ip_address_counted_first(self, ip, up) ==
    IF ~DictHas(self.blocked_ips, ip)
    THEN [self EXCEPT !.ret = "False"]
    ELSE LET r == revoke_security_group_ingress(self.sg_rules, ip, up)
             called == [self EXCEPT !.calls = Append(@, <<"revoke", ip>>),
                                    !.sg_rules = r.rules,
                                    !.stats.total_unblocks = @ + 1]
         IN IF r.result = "Ok"
            THEN [called EXCEPT !.blocked_ips = DictPop(@, ip), !.ret = "True"]
            ELSE [called EXCEPT !.ret = "False"]

unblock_ip_address(self, ip, up) ==
    IF ~DictHas(self.blocked_ips, ip)
    THEN [self EXCEPT !.ret = "False"]
    ELSE LET r == revoke_security_group_ingress(self.sg_rules, ip, up)
             called == [self EXCEPT !.calls = Append(@, <<"revoke", ip>>),
                                    !.sg_rules = r.rules]
         IN IF r.result = "Ok"
            THEN [called EXCEPT
                    !.blocked_ips = DictPop(@, ip),
                    !.stats.total_unblocks = @ + 1,
                    !.ret = "True"]
            ELSE [called EXCEPT !.ret = "False"]

\* Mutant: a block expires when it is as old as the timeout.
expired_ips_inclusive(self, t) ==
    LET expired(e) == t - e.value.blocked_at >= block_timeout_minutes
    IN DictKeys(SelectSeq(self.blocked_ips, expired))

\* The first loop of check_and_unblock_expired: the keys whose block is
\* older than the timeout, in dict order.
expired_ips(self, t) ==
    LET expired(e) == t - e.value.blocked_at > block_timeout_minutes
    IN DictKeys(SelectSeq(self.blocked_ips, expired))

RECURSIVE unblock_each(_, _, _)
\* The second loop: unblock_ip_address for each of them; ups[ip] is the
\* fate of the EC2 call made for ip.
unblock_each(self, ips, ups) ==
    IF ips = <<>> THEN self
    ELSE unblock_each(unblock_ip_address(self, Head(ips), ups[Head(ips)]), Tail(ips), ups)

check_and_unblock_expired(self, t, ups) ==
    [unblock_each(self, expired_ips(self, t), ups) EXCEPT !.ret = "None"]

\* Mutant: the bands are closed on the right (a score on a threshold falls
\* into the band below it).
take_action_shifted(self, t, ip, risk_score, network_risk, user_risk, up) ==
    LET threat_level == assess_threat_level(risk_score) IN
    IF risk_score <= 400
    THEN [log_threat(self, ip, risk_score, network_risk, user_risk) EXCEPT !.ret = "LOG"]
    ELSE IF 400 < risk_score /\ risk_score <= 600
    THEN [send_alert(self, t, ip, risk_score, network_risk, user_risk, threat_level)
            EXCEPT !.ret = "ALERT"]
    ELSE IF 600 < risk_score /\ risk_score <= 800
    THEN [send_alert(simulate_rate_limiting(self, t, ip, risk_score),
                     t, ip, risk_score, network_risk, user_risk, threat_level)
            EXCEPT !.ret = "RATE_LIMIT"]
    ELSE LET b == block_ip_address(self, t, ip, risk_score, network_risk, user_risk, up)
         IN IF b.ret = "True"
            THEN [send_alert(b, t, ip, risk_score, network_risk, user_risk, threat_level)
                    EXCEPT !.ret = "BLOCK"]
            ELSE [b EXCEPT !.ret = "BLOCK_FAILED"]

\* Mutant: an entity that scores LOW is released from the registry.
take_action_releasing(self, t, ip, risk_score, network_risk, user_risk, up) ==
    LET threat_level == assess_threat_level(risk_score) IN
    IF risk_score < 400
    THEN [log_threat(self, ip, risk_score, network_risk, user_risk)
            EXCEPT !.blocked_ips = DictPop(@, ip), !.ret = "LOG"]
    ELSE IF 400 <= risk_score /\ risk_score < 600
    THEN [send_alert(self, t, ip, risk_score, network_risk, user_risk, threat_level)
            EXCEPT !.ret = "ALERT"]
    ELSE IF 600 <= risk_score /\ risk_score < 800
    THEN [send_alert(simulate_rate_limiting(self, t, ip, risk_score),
                     t, ip, risk_score, network_risk, user_risk, threat_level)
            EXCEPT !.ret = "RATE_LIMIT"]
    ELSE LET b == block_ip_address(self, t, ip, risk_score, network_risk, user_risk, up)
         IN IF b.ret = "True"
            THEN [send_alert(b, t, ip, risk_score, network_risk, user_risk, threat_level)
                    EXCEPT !.ret = "BLOCK"]
            ELSE [b EXCEPT !.ret = "BLOCK_FAILED"]

take_action(self, t, ip, risk_score, network_risk, user_risk, up) ==
    LET threat_level == assess_threat_level(risk_score) IN
    IF risk_score < 400
    THEN [log_threat(self, ip, risk_score, network_risk, user_risk) EXCEPT !.ret = "LOG"]
    ELSE IF 400 <= risk_score /\ risk_score < 600
    THEN [send_alert(self, t, ip, risk_score, network_risk, user_risk, threat_level)
            EXCEPT !.ret = "ALERT"]
    ELSE IF 600 <= risk_score /\ risk_score < 800
    THEN [send_alert(simulate_rate_limiting(self, t, ip, risk_score),
                     t, ip, risk_score, network_risk, user_risk, threat_level)
            EXCEPT !.ret = "RATE_LIMIT"]
    ELSE LET b == block_ip_address(self, t, ip, risk_score, network_risk, user_risk, up)
         IN IF b.ret = "True"
            THEN [send_alert(b, t, ip, risk_score, network_risk, user_risk, threat_level)
                    EXCEPT !.ret = "BLOCK"]
            ELSE [b EXCEPT !.ret = "BLOCK_FAILED"]

\* Mutant: currently_blocked is the number of blocks ever made.
get_statistics_total(self, t) ==
    [uptime_seconds |-> (t - self.stats.start_time) * 60,
     total_blocks |-> self.stats.total_blocks,
     total_unblocks |-> self.stats.total_unblocks,
     total_alerts |-> self.stats.total_alerts,
     total_rate_limits |-> self.stats.total_rate_limits,
     currently_blocked |-> self.stats.total_blocks,
     blocked_ips |-> DictKeys(self.blocked_ips)]

get_statistics(self, t) ==
    [uptime_seconds |-> (t - self.stats.start_time) * 60,
     total_blocks |-> self.stats.total_blocks,
     total_unblocks |-> self.stats.total_unblocks,
     total_alerts |-> self.stats.total_alerts,
     total_rate_limits |-> self.stats.total_rate_limits,
     currently_blocked |-> Len(self.blocked_ips),
     blocked_ips |-> DictKeys(self.blocked_ips)]

\* -------------------------------------------------------------- AlertSystem

\* config["email"]["enabled"] and config["thresholds"]["email_threshold"].
email_enabled == TRUE
email_threshold == 600

\* Mutant: the window is the last 60 minutes.
check_rate_limit_sliding(history, t) ==
    LET hour_ago == t - MinutesPerHour
        recent(a) == a.timestamp >= hour_ago /\ a.final_risk >= email_threshold
    IN Len(SelectSeq(history, recent)) < max_emails_per_hour

\* Mutant: only the alerts of the current minute count.
check_rate_limit_instant(history, t) ==
    LET recent(a) == a.timestamp >= t /\ a.final_risk >= email_threshold
    IN Len(SelectSeq(history, recent)) < max_emails_per_hour

\* True when another email may go out: the alerts of the current clock hour
\* at or above the email threshold are fewer than max_emails_per_hour.
check_rate_limit(history, t) ==
    LET hour_ago == t - (t % MinutesPerHour)
        recent(a) == a.timestamp >= hour_ago /\ a.final_risk >= email_threshold
    IN Len(SelectSeq(history, recent)) < max_emails_per_hour

\* What becomes of the email: smtp_ok is the fate of the SMTP session.
send_email_alert(history, t, smtp_ok) ==
    IF ~check_rate_limit(history, t) THEN "rate_limited"
    ELSE IF smtp_ok THEN "sent"
    ELSE "failed"

process_alert(history, alert, t, smtp_ok) ==
    IF alert.final_risk >= email_threshold /\ email_enabled
    THEN send_email_alert(history, t, smtp_ok)
    ELSE "none"

\* The history after the call and what was done about the email: the alert
\* is stored first and processed afterwards.
create_alert(history, t, threat_level, final_risk, network_risk, user_risk, smtp_ok) ==
    LET alert == [timestamp |-> t, threat_level |-> threat_level,
                  final_risk |-> final_risk, network_risk |-> network_risk,
                  user_risk |-> user_risk]
        stored == Append(history, alert)
    IN [alert_history |-> stored, email |-> process_alert(stored, alert, t, smtp_ok)]

\* ------------------------------------------------------------------ actions

\* final_risk, level = fusion_function(network_risk, user_risk), with the
\* arguments of the call.
Fused(network_risk, user_risk) ==
    [network_risk |-> network_risk, user_risk |-> user_risk,
     final_risk |-> combine_risks(network_risk, user_risk).final_risk,
     level |-> combine_risks(network_risk, user_risk).level]

\* No fusion yet.
NoFusion == [network_risk |-> 0, user_risk |-> 0, final_risk |-> 0, level |-> ""]

\* The object after a call becomes the state.
Commit(m, op, ip, risk_score) ==
    /\ blocked_ips' = m.blocked_ips
    /\ rate_limited_ips' = m.rate_limited_ips
    /\ alert_history' = m.alert_history
    /\ stats' = m.stats
    /\ sg_rules' = m.sg_rules
    /\ last_call' = [op |-> op, ip |-> ip, risk_score |-> risk_score,
                     ret |-> m.ret, calls |-> m.calls]

\* The object __init__ leaves behind; it keeps the monitoring_interval it is
\* given as it is.
Constructed(interval) ==
    /\ monitoring_interval = interval
    /\ now = StartTime
    /\ blocked_ips = <<>>
    /\ rate_limited_ips = <<>>
    /\ alert_history = <<>>
    /\ stats = [total_blocks |-> 0, total_unblocks |-> 0, total_alerts |-> 0,
                total_rate_limits |-> 0, start_time |-> StartTime]
    /\ sg_rules \in StaleRules
    /\ last_call = [op |-> "__init__", ip |-> "", risk_score |-> 0, ret |-> "None",
                    calls |-> <<>>]
    /\ as_alert_history = <<>>
    /\ last_email = "none"
    /\ as_last_call = [op |-> "__init__", ret |-> "None"]
    /\ pc = "idle"
    /\ driver = "none"
    /\ network_results = <<>>
    /\ user_results = <<>>
    /\ idx = 0
    /\ cycle = [sweeps |-> 0, processed |-> {}, fetch_failed |-> FALSE, entry_failed |-> {}]
    /\ cycle_count = 0
    /\ error_log = <<>>
    /\ fusion = NoFusion
    /\ system_stats = [total_cycles |-> 0, threats_detected |-> 0, autonomous_actions |-> 0]
    /\ threads = [t \in Threads |-> Ready]

\* An agent constructed with the default interval.
Init == Constructed(default_monitoring_interval)

\* An agent constructed with an interval of its host's choice.
MonitoringIntervals == {-1, 0, default_monitoring_interval}
InitConfig == \E interval \in MonitoringIntervals : Constructed(interval)

\* The fates of the EC2 call of an operation: it goes through or it fails
\* (an operation that makes no call has nothing to choose).
EC2Fates(calls_ec2) == IF calls_ec2 THEN BOOLEAN ELSE {TRUE}

\* The clock advances.
Tick ==
    /\ now + TickMinutes <= MaxTime
    /\ now' = now + TickMinutes
    /\ UNCHANGED <<monitoring_interval, agent_vars, alert_vars, cycle_vars, threads>>

\* agent.take_action(ip, risk_score, network_risk, user_risk), called by the host.
HostTakeAction(ips, risk_scores, nu) ==
    \E ip \in ips, risk_score \in risk_scores :
       \E up \in EC2Fates(risk_score >= 800 /\ ~DictHas(blocked_ips, ip)) :
        LET m == take_action(Self, now, ip, risk_score, nu[1], nu[2], up) IN
        /\ pc = "idle"
        /\ Len(m.alert_history) <= MaxAlerts
        /\ Commit(m, "take_action", ip, risk_score)
        /\ UNCHANGED <<now, monitoring_interval, threads, alert_vars, cycle_vars>>

TakeAction ==
    \E nu \in RiskPairs :
        HostTakeAction(Entities, RiskScores \cup {combine_risks(nu[1], nu[2]).final_risk}, nu)

\* The same call with a risk_score next to a threshold or out of range.
TakeActionBand ==
    \E nu \in RiskPairs : HostTakeAction(BandEntities, BandRiskScores, nu)

\* agent.unblock_ip_address(ip), called by the host.
Unblock ==
    \E ip \in Entities : \E up \in EC2Fates(DictHas(blocked_ips, ip)) :
        /\ pc = "idle"
        /\ Commit(unblock_ip_address(Self, ip, up), "unblock_ip_address", ip, 0)
        /\ UNCHANGED <<now, monitoring_interval, threads, alert_vars, cycle_vars>>

\* agent.check_and_unblock_expired(), called by the host.
Sweep ==
    \E ups \in [Entities -> BOOLEAN] :
        /\ \A ip \in Entities : ~ups[ip] => ip \in Range(expired_ips(Self, now))
        /\ pc = "idle"
        /\ Commit(check_and_unblock_expired(Self, now, ups), "check_and_unblock_expired", "", 0)
        /\ UNCHANGED <<now, monitoring_interval, threads, alert_vars, cycle_vars>>

Next == Tick \/ TakeAction \/ Unblock \/ Sweep

\* combine_risks(network_risk, user_risk), called on its own.
Fuse ==
    \E nu \in FusionGrid :
        /\ pc = "idle"
        /\ fusion' = Fused(nu[1], nu[2])
        /\ UNCHANGED <<now, monitoring_interval, threads, agent_vars, alert_vars, pc, driver, network_results, user_results,
                       idx, cycle, cycle_count, error_log, system_stats>>

\* alert_system.create_alert(level, final_risk, network_risk, user_risk),
\* called by the host with a fused risk.
CreateAlert ==
    \E nu \in AlertPairs :
        LET fused == Fused(nu[1], nu[2]) IN
        \E smtp_ok \in (IF fused.final_risk >= email_threshold THEN BOOLEAN ELSE {TRUE}) :
            LET created == create_alert(as_alert_history, now, fused.level, fused.final_risk,
                                        nu[1], nu[2], smtp_ok) IN
            /\ pc = "idle"
            /\ Len(created.alert_history) <= MaxAlerts
            /\ as_alert_history' = created.alert_history
            /\ last_email' = created.email
            /\ as_last_call' = [op |-> "create_alert", ret |-> "Alert"]
            /\ UNCHANGED <<now, monitoring_interval, threads, agent_vars, cycle_vars>>

\* alert_system.check_rate_limit(), called by the host.
CheckRateLimit ==
    /\ pc = "idle"
    /\ as_last_call' = [op |-> "check_rate_limit",
                        ret |-> IF check_rate_limit(as_alert_history, now)
                                THEN "True" ELSE "False"]
    /\ UNCHANGED <<now, monitoring_interval, threads, agent_vars, as_alert_history, last_email, cycle_vars>>

NextAlert == Tick \/ CreateAlert \/ CheckRateLimit

\* One scenario of test_threat_scenarios: the host fuses the two risks and
\* hands the result to take_action.
Scenario ==
    \E sc \in Scenarios :
        LET fused == Fused(sc.network_risk, sc.user_risk) IN
        \E up \in EC2Fates(fused.final_risk >= 800 /\ ~DictHas(blocked_ips, sc.ip)) :
            LET m == take_action(Self, now, sc.ip, fused.final_risk,
                                 sc.network_risk, sc.user_risk, up) IN
            /\ pc = "idle"
            /\ Len(m.alert_history) <= MaxAlerts
            /\ Commit(m, "take_action", sc.ip, fused.final_risk)
            /\ fusion' = fused
            /\ UNCHANGED <<now, monitoring_interval, threads, alert_vars, pc, driver, network_results, user_results,
                           idx, cycle, cycle_count, error_log, system_stats>>

NextScenario == Tick \/ Scenario

\* agent.assess_threat_level(final_risk), called on the risk that was fused
\* last.
Assess ==
    /\ pc = "idle"
    /\ fusion # NoFusion
    /\ Commit([Self EXCEPT !.ret = assess_threat_level(fusion.final_risk)],
              "assess_threat_level", "", fusion.final_risk)
    /\ UNCHANGED <<now, monitoring_interval, threads, alert_vars, cycle_vars>>

NextFusion == Fuse \/ Assess

\* ------------------------------------------------------- monitoring cycles

\* Mutant: the last matching behaviour entry is taken instead of the first.
matched_user_risk_last(users, ip) ==
    LET hit(u) == u.ip = ip
        matches == SelectSeq(users, hit)
    IN IF matches = <<>> THEN 100 ELSE matches[Len(matches)].user_risk

\* Mutant: an entity without a behaviour entry is given the highest risk.
matched_user_risk_worst(users, ip) ==
    LET hit(u) == u.ip = ip
        matches == SelectSeq(users, hit)
    IN IF matches = <<>> THEN 1000 ELSE Head(matches).user_risk

\* next((u for u in user_results if u["ip"] == ip), None), then the
\* user_risk of the match or 0.1.
matched_user_risk(users, ip) ==
    LET hit(u) == u.ip = ip
        matches == SelectSeq(users, hit)
    IN IF matches = <<>> THEN 100 ELSE Head(matches).user_risk

\* What a cycle has done: the sweeps it ran, the positions of the network
\* entries it called take_action for, whether its signal fetch failed and
\* the positions of the entries whose processing raised.
NewCycle == [sweeps |-> 0, processed |-> {}, fetch_failed |-> FALSE, entry_failed |-> {}]

\* The except clause of a cycle function, reached from inside the for loop:
\* the exception is reported and the function returns.
CycleFails ==
    /\ cycle' = [cycle EXCEPT !.entry_failed = @ \cup {idx}]
    /\ error_log' = Append(error_log, "entry")
    /\ pc' = "idle"

\* A fetch that raises ends the loop of the driver instead of its cycle.
CycleStart_crash(drv, idsOutcomes, uebaOutcomes, cap) ==
    \E ids \in idsOutcomes, ueba \in uebaOutcomes :
        /\ pc = "idle"
        /\ driver \in {"none", drv}
        /\ cycle_count < cap
        /\ cycle_count' = cycle_count + 1
        /\ driver' = drv
        /\ idx' = 1
        /\ IF ids.raised \/ ueba.raised
           THEN /\ cycle' = [NewCycle EXCEPT !.fetch_failed = TRUE]
                /\ error_log' = Append(error_log, "fetch")
                /\ pc' = "stopped"
                /\ UNCHANGED <<network_results, user_results>>
           ELSE /\ cycle' = NewCycle
                /\ error_log' = error_log
                /\ pc' = "loop"
                /\ network_results' = ids.items
                /\ user_results' = ueba.items
        /\ UNCHANGED <<now, monitoring_interval, threads, agent_vars, alert_vars, fusion, system_stats>>

\* A cycle function up to its for loop, called by the while loop of its
\* driver: the two detect() calls; when one raises, the except clause of the
\* function logs the error and the function returns.
CycleStart(drv, idsOutcomes, uebaOutcomes, cap) ==
    \E ids \in idsOutcomes, ueba \in uebaOutcomes :
        /\ pc = "idle"
        /\ driver \in {"none", drv}
        /\ cycle_count < cap
        /\ cycle_count' = cycle_count + 1
        /\ driver' = drv
        /\ idx' = 1
        /\ IF ids.raised \/ ueba.raised
           THEN /\ cycle' = [NewCycle EXCEPT !.fetch_failed = TRUE]
                /\ error_log' = Append(error_log, "fetch")
                /\ pc' = "idle"
                /\ UNCHANGED <<network_results, user_results>>
           ELSE /\ cycle' = NewCycle
                /\ error_log' = error_log
                /\ pc' = "loop"
                /\ network_results' = ids.items
                /\ user_results' = ueba.items
        /\ UNCHANGED <<now, monitoring_interval, threads, agent_vars, alert_vars, fusion, system_stats>>

\* run_monitoring_cycle up to its for loop.
AgentCycleStart == CycleStart("agent", IdsOutcomes, UebaOutcomes, MaxCycles)

\* One pass of the for loop of run_monitoring_cycle; fusion_ok is the fate
\* of the call of fusion_function, which the caller supplies and which may
\* raise.
AgentProcessEntry ==
    /\ pc = "loop" /\ driver = "agent"
    /\ idx <= Len(network_results)
    /\ LET net == network_results[idx]
           ip == net.ip
           network_risk == net.network_risk
       IN \E fusion_ok \in BOOLEAN :
          IF ~fusion_ok
          THEN /\ CycleFails
               /\ UNCHANGED <<agent_vars, idx, fusion>>
          ELSE LET user_risk == matched_user_risk(user_results, ip)
                   fused == combine_risks(network_risk, user_risk)
               IN \E up \in EC2Fates(fused.final_risk >= 800 /\ ~DictHas(blocked_ips, ip)) :
                    LET m == take_action(Self, now, ip, fused.final_risk,
                                         network_risk, user_risk, up)
                    IN /\ Len(m.alert_history) <= MaxAlerts
                       /\ Commit(m, "take_action", ip, fused.final_risk)
                       /\ cycle' = [cycle EXCEPT !.processed = @ \cup {idx}]
                       /\ idx' = idx + 1
                       /\ pc' = pc
                       /\ error_log' = error_log
                       /\ fusion' = Fused(network_risk, user_risk)
    /\ UNCHANGED <<now, monitoring_interval, threads, alert_vars, driver, network_results, user_results, cycle_count,
                   system_stats>>

\* The end of run_monitoring_cycle: the loop is over, expired blocks are
\* swept and the function returns.
AgentCycleSweep ==
    \E ups \in [Entities -> BOOLEAN] :
        /\ pc = "loop" /\ driver = "agent"
        /\ idx > Len(network_results)
        /\ \A ip \in Entities : ~ups[ip] => ip \in Range(expired_ips(Self, now))
        /\ Commit(check_and_unblock_expired(Self, now, ups), "check_and_unblock_expired", "", 0)
        /\ cycle' = [cycle EXCEPT !.sweeps = @ + 1]
        /\ pc' = "idle"
        /\ UNCHANGED <<now, monitoring_interval, threads, alert_vars, driver, network_results, user_results, idx,
                       cycle_count, error_log, fusion, system_stats>>

\* The agent of the detection system is switched on (the constructor's default).
enable_autonomous_response == TRUE

\* run_detection_cycle up to its for loop: the two detect() calls and the
\* report of what they returned.
SystemCycleStart == CycleStart("system", IDSEngineOutcomes, UebaOutcomes, MaxCycles)

\* One pass of the for loop of run_detection_cycle: fusion, the two
\* get_metric calls (metrics_ok is their fate), the alert, the agent's action
\* and the sweep that follows it inside the loop.
SystemProcessEntry ==
    /\ pc = "loop" /\ driver = "system"
    /\ idx <= Len(network_results)
    /\ LET net == network_results[idx]
           ip == net.ip
           network_risk == net.network_risk
           user_risk == matched_user_risk(user_results, ip)
           fused == combine_risks(network_risk, user_risk)
           alerting == fused.final_risk > 300
       IN \E metrics_ok \in BOOLEAN :
          IF ~metrics_ok
          THEN /\ CycleFails
               /\ fusion' = Fused(network_risk, user_risk)
               /\ UNCHANGED <<agent_vars, alert_vars, idx, system_stats>>
          ELSE \E smtp_ok \in (IF alerting /\ fused.final_risk >= email_threshold
                               THEN BOOLEAN ELSE {TRUE}),
                  up \in EC2Fates(fused.final_risk >= 800 /\ ~DictHas(blocked_ips, ip)),
                  ups \in [Entities -> BOOLEAN] :
               LET created == create_alert(as_alert_history, now, fused.level,
                                           fused.final_risk, network_risk, user_risk, smtp_ok)
                   acted == take_action(Self, now, ip, fused.final_risk,
                                        network_risk, user_risk, up)
                   swept == check_and_unblock_expired([acted EXCEPT !.calls = <<>>], now, ups)
               IN /\ \A e \in Entities : ~ups[e] => e \in Range(expired_ips(acted, now))
                  /\ IF alerting
                     THEN /\ as_alert_history' = created.alert_history
                          /\ last_email' = created.email
                          /\ as_last_call' = [op |-> "create_alert", ret |-> "Alert"]
                     ELSE UNCHANGED alert_vars
                  /\ Len(as_alert_history') <= MaxAlerts
                  /\ IF enable_autonomous_response
                     THEN /\ Len(acted.alert_history) <= MaxAlerts
                          /\ Commit([swept EXCEPT !.ret = acted.ret, !.calls = acted.calls \o @],
                                    "take_action", ip, fused.final_risk)
                          /\ cycle' = [cycle EXCEPT !.processed = @ \cup {idx},
                                                    !.sweeps = @ + 1]
                     ELSE /\ UNCHANGED agent_vars
                          /\ cycle' = cycle
                  /\ system_stats' =
                        [system_stats EXCEPT
                            !.threats_detected = IF alerting THEN @ + 1 ELSE @,
                            !.autonomous_actions =
                                IF enable_autonomous_response
                                   /\ acted.ret \in {"ALERT", "RATE_LIMIT", "BLOCK"}
                                THEN @ + 1 ELSE @]
                  /\ idx' = idx + 1
                  /\ pc' = pc
                  /\ error_log' = error_log
                  /\ fusion' = Fused(network_risk, user_risk)
    /\ UNCHANGED <<now, monitoring_interval, threads, driver, network_results, user_results, cycle_count>>

\* The end of run_detection_cycle: the loop is over, the cycle is counted
\* and the function returns.
SystemCycleFinish ==
    /\ pc = "loop" /\ driver = "system"
    /\ idx > Len(network_results)
    /\ system_stats' = [system_stats EXCEPT !.total_cycles = @ + 1]
    /\ pc' = "idle"
    /\ UNCHANGED <<now, monitoring_interval, threads, agent_vars, alert_vars, driver, network_results, user_results,
                   idx, cycle, cycle_count, error_log, fusion>>

\* What the collaborators of a long-running agent report in a cycle: a
\* failure, nothing, or one entity (the network risk 0.95 fuses to CRITICAL
\* with the user risk 0.8 and to HIGH without a match, the network risk 0.5
\* to HIGH with it and to LOW without).
LoopIdsOutcomes ==
    {[raised |-> TRUE, items |-> <<>>],
     [raised |-> FALSE, items |-> <<>>],
     [raised |-> FALSE, items |-> <<[ip |-> "10.0.0.2", network_risk |-> 950]>>],
     [raised |-> FALSE, items |-> <<[ip |-> "10.0.0.2", network_risk |-> 500]>>]}
LoopUebaOutcomes ==
    {[raised |-> TRUE, items |-> <<>>],
     [raised |-> FALSE, items |-> <<>>],
     [raised |-> FALSE, items |-> <<[ip |-> "10.0.0.2", user_risk |-> 800]>>]}

\* One turn of the while loop of start(): cycle_count += 1 and the call of
\* run_monitoring_cycle, up to its for loop.
LoopCycleStart == CycleStart("agent", LoopIdsOutcomes, LoopUebaOutcomes, MaxLoopCycles)

\* KeyboardInterrupt reaches start(), between two cycles (in time.sleep) or
\* inside run_monitoring_cycle, whose except clause is for Exception and
\* lets it through: display_statistics() is called and the loop is over.
Interrupt ==
    /\ pc \in {"idle", "loop"}
    /\ driver = "agent"
    /\ pc' = "stopped"
    /\ UNCHANGED <<now, monitoring_interval, threads, agent_vars, alert_vars, driver, network_results, user_results,
                   idx, cycle, cycle_count, error_log, fusion, system_stats>>

NextLoop ==
    \/ Tick
    \/ LoopCycleStart \/ AgentProcessEntry \/ AgentCycleSweep
    \/ Interrupt

\* ueba_engine.detect() as the loop of run() meets it: the call raises, or
\* returns no entry, the entry of the monitored instance, or another's.
SystemUebaOutcomes ==
    {[raised |-> TRUE, items |-> <<>>],
     [raised |-> FALSE, items |-> <<>>],
     [raised |-> FALSE, items |-> <<[ip |-> "EC2_INSTANCE", user_risk |-> 800]>>],
     [raised |-> FALSE, items |-> <<[ip |-> "10.0.0.2", user_risk |-> 100]>>]}

\* One turn of the while loop of run(): the call of run_detection_cycle, up
\* to its for loop.
SystemLoopStart == CycleStart("system", IDSEngineOutcomes, SystemUebaOutcomes, MaxLoopCycles)

NextSystem ==
    \/ Tick
    \/ SystemLoopStart \/ SystemProcessEntry \/ SystemCycleFinish

NextCycle ==
    \/ Tick
    \/ AgentCycleStart \/ AgentProcessEntry \/ AgentCycleSweep
    \/ SystemCycleStart \/ SystemProcessEntry \/ SystemCycleFinish

NextBand == Tick \/ TakeActionBand

\* The agent driven by its host, one call after another.
Spec == Init /\ [][Next]_vars

\* The host calling take_action around the thresholds of the action table.
SpecBand == Init /\ [][NextBand]_vars

\* The fusion function called on its own.
SpecFusion == Init /\ [][NextFusion]_vars

\* The alert system driven by its host.
SpecAlert == Init /\ [][NextAlert]_vars

\* The host running the threat scenarios.
SpecScenario == Init /\ [][NextScenario]_vars

\* The agent driven by the monitoring loops.
SpecCycle == Init /\ [][NextCycle]_vars

\* The detection system running run(): one detection cycle after another.
SpecSystem == Init /\ [][NextSystem]_vars

\* The agent running start(): the while loop goes round for as long as it is
\* not interrupted (time.sleep returns, and each step of a cycle returns).
SpecLoop ==
    /\ Init
    /\ [][NextLoop]_vars
    /\ WF_vars(LoopCycleStart)
    /\ WF_vars(AgentProcessEntry)
    /\ WF_vars(AgentCycleSweep)

\* The lists the join of a cycle is driven with: network lists of up to two
\* entries (two entities, and one entity twice), behaviour lists with no
\* entry, with two entries of one entity, with one entry for each entity and
\* with an identifier that differs from "EC2_INSTANCE" by case only.
JoinIdsOutcomes ==
    {[raised |-> FALSE, items |-> l] :
        l \in {<<>>,
               <<[ip |-> "10.0.0.2", network_risk |-> 950]>>,
               <<[ip |-> "EC2_INSTANCE", network_risk |-> 950],
                 [ip |-> "10.0.0.2", network_risk |-> 50]>>,
               <<[ip |-> "10.0.0.2", network_risk |-> 50],
                 [ip |-> "10.0.0.2", network_risk |-> 950]>>}}
JoinUebaOutcomes ==
    {[raised |-> FALSE, items |-> l] :
        l \in {<<>>,
               <<[ip |-> "10.0.0.2", user_risk |-> 800],
                 [ip |-> "10.0.0.2", user_risk |-> 100]>>,
               <<[ip |-> "EC2_INSTANCE", user_risk |-> 300],
                 [ip |-> "10.0.0.2", user_risk |-> 800]>>,
               <<[ip |-> "ec2_instance", user_risk |-> 800]>>}}

\* run_monitoring_cycle and run_detection_cycle up to their for loops, with
\* these lists (the detection system has the one entry of its IDSEngine).
JoinAgentStart == CycleStart("agent", JoinIdsOutcomes, JoinUebaOutcomes, MaxCycles)
JoinSystemStart == CycleStart("system", IDSEngineOutcomes, JoinUebaOutcomes, MaxCycles)

NextJoin ==
    \/ Tick
    \/ JoinAgentStart \/ AgentProcessEntry \/ AgentCycleSweep
    \/ JoinSystemStart \/ SystemProcessEntry \/ SystemCycleFinish

\* One monitoring cycle of either driver joining its two lists.
SpecJoin == Init /\ [][NextJoin]_vars

\* ------------------------------------------------------- a second thread

\* The agent holds no lock: a thread that calls one of its methods runs it
\* without excluding the other thread, and the interpreter may switch
\* threads between two statements and does so while a thread waits for EC2.
\* A call is taken apart at the points where the other thread's writes can
\* be seen.

\* A call returns in thread t.
Returns(t, op, ip, risk_score, ret, calls) ==
    /\ threads' = [threads EXCEPT ![t] = Ready]
    /\ last_call' = [op |-> op, ip |-> ip, risk_score |-> risk_score, ret |-> ret,
                     calls |-> calls]

\* take_action with a CRITICAL risk up to the test of block_ip_address:
\* "if ip_address in self.blocked_ips".
ThreadTakeAction(t) ==
    \E ip \in Entities, nu \in RiskPairs :
        LET risk_score == combine_risks(nu[1], nu[2]).final_risk IN
        /\ pc = "idle"
        /\ threads[t].pc = "ready"
        /\ IF DictHas(blocked_ips, ip)
           THEN Returns(t, "take_action", ip, risk_score, "BLOCK_FAILED", <<>>)
           ELSE /\ threads' = [threads EXCEPT ![t] = [Ready EXCEPT !.pc = "authorize",
                                                                   !.ip = ip,
                                                                   !.risk_score = risk_score]]
                /\ last_call' = last_call
        /\ UNCHANGED <<now, monitoring_interval, blocked_ips, rate_limited_ips, alert_history, stats, sg_rules,
                       alert_vars, cycle_vars>>

\* The call of authorize_security_group_ingress; an answer that is an error
\* ends block_ip_address with False and take_action with BLOCK_FAILED.
ThreadAuthorize(t) ==
    \E up \in BOOLEAN :
        LET ip == threads[t].ip
            r == authorize_security_group_ingress(sg_rules, ip, up)
        IN /\ threads[t].pc = "authorize"
           /\ sg_rules' = r.rules
           /\ IF r.result = "Ok"
              THEN /\ threads' = [threads EXCEPT ![t].pc = "track"]
                   /\ last_call' = last_call
              ELSE Returns(t, "take_action", ip, threads[t].risk_score, "BLOCK_FAILED",
                           <<<<"authorize", ip>>>>)
           /\ UNCHANGED <<now, monitoring_interval, blocked_ips, rate_limited_ips, alert_history, stats,
                          alert_vars, cycle_vars>>

\* The rest of block_ip_address and of take_action: the entry is stored,
\* the block is counted and the alert is sent.
ThreadTrack(t) ==
    \E nu \in RiskPairs :
        LET ip == threads[t].ip
            risk_score == threads[t].risk_score
            tracked == [Self EXCEPT
                            !.blocked_ips = DictSet(@, ip, BlockedIP(ip, now, risk_score)),
                            !.stats.total_blocks = @ + 1]
            m == send_alert(tracked, now, ip, risk_score, nu[1], nu[2],
                            assess_threat_level(risk_score))
        IN /\ threads[t].pc = "track"
           /\ Len(m.alert_history) <= MaxAlerts
           /\ blocked_ips' = m.blocked_ips
           /\ alert_history' = m.alert_history
           /\ stats' = m.stats
           /\ Returns(t, "take_action", ip, risk_score, "BLOCK", <<<<"authorize", ip>>>>)
           /\ UNCHANGED <<now, monitoring_interval, rate_limited_ips, sg_rules, alert_vars, cycle_vars>>

\* check_and_unblock_expired up to its first loop: current_time is read and
\* the iterator of self.blocked_ips.items() remembers the size of the dict.
ThreadSweepBegin(t) ==
    /\ pc = "idle"
    /\ threads[t].pc = "ready"
    /\ threads' = [threads EXCEPT ![t] = [Ready EXCEPT !.pc = "iterate",
                                                       !.current_time = now,
                                                       !.used = Len(blocked_ips)]]
    /\ UNCHANGED <<now, monitoring_interval, agent_vars, alert_vars, cycle_vars>>

\* One step of the iterator: a dict whose size is not the remembered one
\* raises RuntimeError (dictionary changed size during iteration), which
\* leaves check_and_unblock_expired; otherwise the next item is examined,
\* and after the last one the second loop unblocks the expired entities.
ThreadSweepNext(t) ==
    LET th == threads[t] IN
    /\ th.pc = "iterate"
    /\ IF Len(blocked_ips) # th.used
       THEN /\ Returns(t, "check_and_unblock_expired", "", 0, "RuntimeError", <<>>)
            /\ UNCHANGED <<blocked_ips, rate_limited_ips, alert_history, stats, sg_rules>>
       ELSE IF th.pos < Len(blocked_ips)
       THEN LET e == blocked_ips[th.pos + 1]
                old == th.current_time - e.value.blocked_at > block_timeout_minutes
            IN /\ threads' = [threads EXCEPT
                                ![t].pos = @ + 1,
                                ![t].expired_ips = IF old THEN Append(@, e.key) ELSE @]
               /\ UNCHANGED agent_vars
       ELSE \E ups \in [Entities -> BOOLEAN] :
               LET m == unblock_each(Self, th.expired_ips, ups) IN
               /\ \A ip \in Entities : ~ups[ip] => ip \in Range(th.expired_ips)
               /\ blocked_ips' = m.blocked_ips
               /\ rate_limited_ips' = m.rate_limited_ips
               /\ alert_history' = m.alert_history
               /\ stats' = m.stats
               /\ sg_rules' = m.sg_rules
               /\ Returns(t, "check_and_unblock_expired", "", 0, "None", m.calls)
    /\ UNCHANGED <<now, monitoring_interval, alert_vars, cycle_vars>>

NextThreads ==
    \/ Tick
    \/ \E t \in Threads :
        \/ ThreadTakeAction(t) \/ ThreadAuthorize(t) \/ ThreadTrack(t)
        \/ ThreadSweepBegin(t) \/ ThreadSweepNext(t)

\* The agent shared by two threads of its host.
SpecThreads == Init /\ [][NextThreads]_vars

\* ------------------------------------------------------- configuration

\* One turn of the while loop of start() when the agent was constructed
\* with any interval: the first turn, or a later one after time.sleep has
\* returned.
ConfigCycleStart ==
    /\ cycle_count > 0 => monitoring_interval >= 0
    /\ CycleStart("agent", LoopIdsOutcomes, LoopUebaOutcomes, MaxLoopCycles)

\* time.sleep(self.monitoring_interval) with a negative interval raises
\* ValueError after the first cycle: the except Exception clause of start()
\* logs a critical error and displays the statistics, and the loop is over.
SleepRaises ==
    /\ pc = "idle"
    /\ driver = "agent"
    /\ cycle_count > 0
    /\ monitoring_interval < 0
    /\ pc' = "stopped"
    /\ error_log' = Append(error_log, "critical")
    /\ UNCHANGED <<now, monitoring_interval, threads, agent_vars, alert_vars, driver,
                   network_results, user_results, idx, cycle, cycle_count, fusion,
                   system_stats>>

NextConfig ==
    \/ Tick
    \/ ConfigCycleStart \/ AgentProcessEntry \/ AgentCycleSweep
    \/ SleepRaises

\* The agent constructed with some interval and started.
SpecConfig == InitConfig /\ [][NextConfig]_vars

\* risk_score values of every band, for one entity that the host scores
\* again and again, blocks, unblocks and sweeps.
LifecycleRiskScores == {250, 500, 700, 890}
TakeActionLifecycle ==
    \E nu \in RiskPairs : HostTakeAction(BandEntities, LifecycleRiskScores, nu)

NextLifecycle == Tick \/ TakeActionLifecycle \/ Unblock \/ Sweep

\* The host taking one entity through every band and through its block
\* lifecycle.
SpecLifecycle == Init /\ [][NextLifecycle]_vars

\* A CRITICAL take_action call of the host.
TakeActionCritical ==
    \E nu \in RiskPairs :
        HostTakeAction(Entities, {combine_risks(nu[1], nu[2]).final_risk}, nu)

\* Somebody else deletes a deny rule from the security group (the group is
\* a resource of the account, not of the agent): the revoke call the agent
\* makes for it later is answered InvalidPermission.NotFound.
RuleRemoved ==
    \E ip \in sg_rules :
        /\ pc = "idle"
        /\ sg_rules' = sg_rules \ {ip}
        /\ UNCHANGED <<now, monitoring_interval, threads, blocked_ips, rate_limited_ips,
                       alert_history, stats, last_call, alert_vars, cycle_vars>>

NextRevoke == Tick \/ TakeActionCritical \/ Unblock \/ Sweep \/ RuleRemoved

\* The host blocking, unblocking and sweeping while the rules of the
\* security group can also disappear behind the agent's back.
SpecRevoke == Init /\ [][NextRevoke]_vars

\* The ends of [0, 1], its middle and a value next to its upper end as the
\* risks of one entity: a network entry, and no behaviour entry, one of the
\* entity or one of another.
EndRisks == {0, 500, 900, 1000}
ReachIdsOutcomes ==
    {[raised |-> FALSE, items |-> <<[ip |-> "10.0.0.2", network_risk |-> r]>>] : r \in EndRisks}
ReachUebaOutcomes ==
    {[raised |-> FALSE, items |-> <<>>],
     [raised |-> FALSE, items |-> <<[ip |-> "EC2_INSTANCE", user_risk |-> 1000]>>]}
        \cup {[raised |-> FALSE, items |-> <<[ip |-> "10.0.0.2", user_risk |-> r]>>] :
                    r \in EndRisks}

\* run_monitoring_cycle up to its for loop, with these lists.
ReachCycleStart == CycleStart("agent", ReachIdsOutcomes, ReachUebaOutcomes, MaxCycles)

NextReach == Tick \/ ReachCycleStart \/ AgentProcessEntry \/ AgentCycleSweep

\* One monitoring cycle of the agent on risks at the ends of [0, 1].
SpecReach == Init /\ [][NextReach]_vars

\* One turn of the while loop of start() in a run that is never interrupted:
\* the call of run_monitoring_cycle, up to its for loop. The turns are not
\* counted out: cycle_count, which the program only prints, is counted
\* modulo MaxLoopCycles, the error log is kept up to MaxLoopCycles reports,
\* and the collaborators report an entity until MaxReports alerts have been
\* sent or the error log is full.
ForeverCycleStart ==
    \E ids \in LoopIdsOutcomes, ueba \in LoopUebaOutcomes :
        /\ pc = "idle"
        /\ driver \in {"none", "agent"}
        /\ Len(alert_history) + Len(ids.items) <= MaxReports
        /\ ids.items # <<>> => Len(error_log) < MaxLoopCycles
        /\ cycle_count' = (cycle_count % MaxLoopCycles) + 1
        /\ driver' = "agent"
        /\ idx' = 1
        /\ IF ids.raised \/ ueba.raised
           THEN /\ cycle' = [NewCycle EXCEPT !.fetch_failed = TRUE]
                /\ error_log' = IF Len(error_log) < MaxLoopCycles
                                THEN Append(error_log, "fetch") ELSE error_log
                /\ pc' = "idle"
                /\ UNCHANGED <<network_results, user_results>>
           ELSE /\ cycle' = NewCycle
                /\ error_log' = error_log
                /\ pc' = "loop"
                /\ network_results' = ids.items
                /\ user_results' = ueba.items
        /\ UNCHANGED <<now, monitoring_interval, threads, agent_vars, alert_vars, fusion, system_stats>>

\* The sweep of a cycle in which every revoke_security_group_ingress call
\* goes through.
SweepRevokes ==
    /\ AgentCycleSweep
    /\ \A ip \in Range(expired_ips(Self, now)) : ip \notin sg_rules'

NextForever ==
    \/ Tick
    \/ ForeverCycleStart \/ AgentProcessEntry \/ AgentCycleSweep

\* The agent running start() without an interrupt: time.sleep returns, each
\* step of a cycle returns, and a revoke call that is made again and again
\* goes through in the end.
SpecForever ==
    /\ Init
    /\ [][NextForever]_vars
    /\ WF_vars(Tick)
    /\ WF_vars(ForeverCycleStart)
    /\ WF_vars(AgentProcessEntry)
    /\ WF_vars(AgentCycleSweep)
    /\ SF_vars(SweepRevokes)

\* ------------------------------------------------------------------ claims

\* A step that is a call of `op` on the agent (the clock stands still during
\* a call).
Called(op) == now' = now /\ last_call'.op = op

\* The entries of a dict stored under key k.
EntriesOf(d, k) == {i \in 1..Len(d) : d[i].key = k}

\* C1. Idempotent block: a take_action call with a CRITICAL risk (>= 0.8) for
\* an entity that already has a BlockEntry leaves the registry, total_blocks
\* and the security group unchanged and makes no EC2 call; when the call
\* before it was the successful block of the same entity, the entity still
\* has exactly one BlockEntry and the second call reports BLOCK_FAILED.
C1_IdempotentBlock ==
    [][\A ip \in Entities :
        (/\ Called("take_action")
         /\ last_call'.ip = ip
         /\ last_call'.risk_score >= 800
         /\ DictHas(blocked_ips, ip))
        => /\ blocked_ips' = blocked_ips
           /\ stats'.total_blocks = stats.total_blocks
           /\ sg_rules' = sg_rules
           /\ last_call'.calls = <<>>
           /\ (last_call.op = "take_action" /\ last_call.ip = ip /\ last_call.ret = "BLOCK")
                => /\ Cardinality(EntriesOf(blocked_ips', ip)) = 1
                   /\ last_call'.ret = "BLOCK_FAILED"]_vars

\* A second CRITICAL take_action for a blocked entity has returned: one
\* block counted, one entry, no EC2 call.
C1_Witness ==
    /\ last_call.op = "take_action"
    /\ last_call.risk_score >= 800
    /\ last_call.ret = "BLOCK_FAILED"
    /\ last_call.calls = <<>>
    /\ Cardinality(EntriesOf(blocked_ips, last_call.ip)) = 1
    /\ stats.total_blocks = 1

\* A sweep removes nothing but the entries it was told to look at.
SweptEntry(i) == now - blocked_ips[i].value.blocked_at > block_timeout_minutes

\* C2 as stated. Expiry boundary: a sweep at a time now with now - T <= D
\* leaves the BlockEntry of an entity blocked at T in the registry, and after
\* a sweep at a time now with now - T > D the entity is absent from it.
C2_AsStated ==
    [][Called("check_and_unblock_expired")
        => \A i \in 1..Len(blocked_ips) :
            IF SweptEntry(i)
            THEN ~DictHas(blocked_ips', blocked_ips[i].key)
            ELSE blocked_ips[i] \in Range(blocked_ips')]_vars

\* C2 as amended. A sweep at a time now with now - T <= D leaves the
\* BlockEntry in the registry; a sweep at a time now with now - T > D calls
\* EC2 once to revoke the entity's rule, and the entity is absent from the
\* registry after the sweep exactly when that call succeeded (the rule is
\* gone); when it failed the BlockEntry is still there, unchanged.
C2_ExpiryBoundary ==
    [][Called("check_and_unblock_expired")
        => \A i \in 1..Len(blocked_ips) :
            LET ip == blocked_ips[i].key
                revokes(c) == c = <<"revoke", ip>>
            IN IF SweptEntry(i)
               THEN /\ Len(SelectSeq(last_call'.calls, revokes)) = 1
                    /\ IF ip \notin sg_rules'
                       THEN ~DictHas(blocked_ips', ip)
                       ELSE blocked_ips[i] \in Range(blocked_ips')
               ELSE /\ blocked_ips[i] \in Range(blocked_ips')
                    /\ Len(SelectSeq(last_call'.calls, revokes)) = 0]_vars

\* A sweep has removed one entry and kept another that is exactly as old as
\* the timeout.
C2_Witness ==
    /\ last_call.op = "check_and_unblock_expired"
    /\ Len(last_call.calls) = 1
    /\ stats.total_unblocks = 1
    /\ Len(blocked_ips) = 1
    /\ now - blocked_ips[1].value.blocked_at = block_timeout_minutes

\* C3. Action table: every take_action call returns the action of the band
\* of its risk_score: LOG below 0.4, ALERT in [0.4, 0.6), RATE_LIMIT in
\* [0.6, 0.8), BLOCK or BLOCK_FAILED from 0.8 up; nothing else is returned,
\* whatever the score (also outside [0, 1]).
C3_ActionTable ==
    last_call.op = "take_action"
    => LET r == last_call.risk_score
           a == last_call.ret
       IN /\ a \in {"LOG", "ALERT", "RATE_LIMIT", "BLOCK", "BLOCK_FAILED"}
          /\ (a = "LOG") = (r < 400)
          /\ (a = "ALERT") = (400 <= r /\ r < 600)
          /\ (a = "RATE_LIMIT") = (600 <= r /\ r < 800)
          /\ (a \in {"BLOCK", "BLOCK_FAILED"}) = (r >= 800)

\* Scores on each threshold and outside [0, 1] have been acted on: the
\* history holds the alerts of 0.4, 0.6 and 1.2, and -0.1 was the last call.
C3_Witness ==
    /\ last_call.op = "take_action"
    /\ last_call.risk_score = -100
    /\ last_call.ret = "LOG"
    /\ {alert_history[i].risk_score : i \in 1..Len(alert_history)} = {400, 600, 1200}

\* The alerts recorded in the clock hour of alert i.
SameHour(history, i) ==
    {j \in 1..Len(history) :
        history[j].timestamp \div MinutesPerHour = history[i].timestamp \div MinutesPerHour}

\* C4 as stated. Notification rate limit: the controller never holds more
\* than max_alerts_per_hour notification records of one clock hour (with a
\* budget of 2, three MEDIUM-or-higher actions in one hour leave 2 records).
C4_AsStated ==
    \A i \in 1..Len(alert_history) :
        Cardinality(SameHour(alert_history, i)) <= max_emails_per_hour

\* C5. CRITICAL success path: a take_action call with risk >= 0.8 for an
\* entity that is not in the registry, whose EC2 call adds the rule, returns
\* BLOCK, appends one BlockEntry for the entity (blocked_at = now,
\* risk = risk_score), adds 1 to total_blocks and records a CRITICAL alert
\* (one more alert, total_alerts + 1); 0.95 and 0.8 fuse to 0.89.
C5_CriticalSuccess ==
    [][/\ combine_risks(950, 800).final_risk = 890
       /\ \A ip \in Entities :
            (/\ Called("take_action")
             /\ last_call'.ip = ip
             /\ last_call'.risk_score >= 800
             /\ ~DictHas(blocked_ips, ip)
             /\ ip \notin sg_rules /\ ip \in sg_rules')
            => /\ last_call'.ret = "BLOCK"
               /\ last_call'.calls = <<<<"authorize", ip>>>>
               /\ Len(blocked_ips') = Len(blocked_ips) + 1
               /\ SubSeq(blocked_ips', 1, Len(blocked_ips)) = blocked_ips
               /\ blocked_ips'[Len(blocked_ips')].key = ip
               /\ blocked_ips'[Len(blocked_ips')].value.ip_address = ip
               /\ blocked_ips'[Len(blocked_ips')].value.blocked_at = now
               /\ blocked_ips'[Len(blocked_ips')].value.risk_score = last_call'.risk_score
               /\ stats'.total_blocks = stats.total_blocks + 1
               /\ stats'.total_unblocks = stats.total_unblocks
               /\ stats'.total_alerts = stats.total_alerts + 1
               /\ Len(alert_history') = Len(alert_history) + 1
               /\ SubSeq(alert_history', 1, Len(alert_history)) = alert_history
               /\ alert_history'[Len(alert_history')].ip_address = ip
               /\ alert_history'[Len(alert_history')].timestamp = now
               /\ alert_history'[Len(alert_history')].threat_level = "CRITICAL"
               /\ alert_history'[Len(alert_history')].risk_score = last_call'.risk_score]_vars

\* The fused risk 0.89 of (0.95, 0.8) has blocked an entity.
C5_Witness ==
    /\ last_call.op = "take_action"
    /\ last_call.risk_score = 890
    /\ last_call.ret = "BLOCK"
    /\ DictHas(blocked_ips, last_call.ip)
    /\ DictGet(blocked_ips, last_call.ip).blocked_at = now
    /\ alert_history # <<>>
    /\ alert_history[Len(alert_history)].network_risk = 950
    /\ alert_history[Len(alert_history)].user_risk = 800

\* C6. Block failure is not fatal and leaves the state as it was: when the
\* EC2 call of a CRITICAL take_action adds no rule (a duplicate rule or any
\* other error), the call returns BLOCK_FAILED, inserts no BlockEntry and
\* leaves the counters, the alert history and the rate-limited set unchanged.
C6_BlockFailure ==
    [][\A ip \in Entities :
        (/\ Called("take_action")
         /\ last_call'.ip = ip
         /\ last_call'.risk_score >= 800
         /\ last_call'.calls # <<>>
         /\ sg_rules' = sg_rules)
        => /\ last_call'.ret = "BLOCK_FAILED"
           /\ last_call'.calls = <<<<"authorize", ip>>>>
           /\ blocked_ips' = blocked_ips
           /\ stats' = stats
           /\ alert_history' = alert_history
           /\ rate_limited_ips' = rate_limited_ips]_vars

\* A block has failed on a duplicate rule: the rule is in the security group
\* and the entity is not in the registry.
C6_Witness ==
    /\ last_call.op = "take_action"
    /\ last_call.ret = "BLOCK_FAILED"
    /\ last_call.calls = <<<<"authorize", last_call.ip>>>>
    /\ last_call.ip \in sg_rules
    /\ ~DictHas(blocked_ips, last_call.ip)

\* C7. Unblock of a blocked entity: the call makes exactly one EC2 revoke
\* call, for that entity; when the rule is revoked, exactly that entity's
\* BlockEntry leaves the registry (the others stay, in order), total_unblocks
\* grows by 1, nothing else is counted, and the call returns True.
C7_UnblockBlocked ==
    [][\A ip \in Entities :
        (/\ Called("unblock_ip_address")
         /\ last_call'.ip = ip
         /\ DictHas(blocked_ips, ip))
        => /\ last_call'.calls = <<<<"revoke", ip>>>>
           /\ ip \notin sg_rules'
                => /\ last_call'.ret = "True"
                   /\ ~DictHas(blocked_ips', ip)
                   /\ Len(blocked_ips') = Len(blocked_ips) - 1
                   /\ Range(blocked_ips') = {e \in Range(blocked_ips) : e.key # ip}
                   /\ stats' = [stats EXCEPT !.total_unblocks = @ + 1]]_vars

\* One of two blocked entities has been unblocked; the other is still there.
C7_Witness ==
    /\ last_call.op = "unblock_ip_address"
    /\ last_call.ret = "True"
    /\ last_call.calls = <<<<"revoke", last_call.ip>>>>
    /\ stats.total_blocks = 2
    /\ stats.total_unblocks = 1
    /\ Len(blocked_ips) = 1
    /\ ~DictHas(blocked_ips, last_call.ip)

\* C8. Unblock of an unknown entity: the call makes no EC2 call, leaves the
\* registry, the counters, the histories and the security group unchanged
\* and returns False.
C8_UnblockUnknown ==
    [][\A ip \in Entities :
        (/\ Called("unblock_ip_address")
         /\ last_call'.ip = ip
         /\ ~DictHas(blocked_ips, ip))
        => /\ last_call'.ret = "False"
           /\ last_call'.calls = <<>>
           /\ blocked_ips' = blocked_ips
           /\ stats' = stats
           /\ alert_history' = alert_history
           /\ rate_limited_ips' = rate_limited_ips
           /\ sg_rules' = sg_rules]_vars

\* An entity that was never blocked, but has a rule in the security group,
\* has been unblocked: nothing happened.
C8_Witness ==
    /\ last_call.op = "unblock_ip_address"
    /\ last_call.ret = "False"
    /\ last_call.calls = <<>>
    /\ last_call.ip \in sg_rules
    /\ stats.total_blocks = 0

\* C9 as stated. The expiry sweep runs exactly once in every monitoring
\* cycle, whatever the number of network entries and whether or not a fetch
\* or an entry failed: a cycle that has returned has swept once.
C9_AsStated ==
    (pc = "idle" /\ cycle_count > 0) => cycle.sweeps = 1

\* C10 as stated. Per-entity failure isolation: in a cycle that fetched its
\* two lists, take_action is called for every network entry but those whose
\* own processing raised: a cycle that has returned has processed them all.
C10_AsStated ==
    (pc = "idle" /\ cycle_count > 0 /\ ~cycle.fetch_failed)
        => cycle.processed \cup cycle.entry_failed = 1..Len(network_results)

\* C11. Collaborator failure does not stop the loop: when a signal fetch
\* raises in a cycle, the failure is caught and logged, the cycle ends
\* without having called take_action, the registry, the counters, the
\* histories and the security group are as they were before the cycle, and
\* the loop starts a later cycle unless it is interrupted.
C11_FetchFailure ==
    /\ [][/\ (cycle_count' = cycle_count + 1 /\ cycle'.fetch_failed)
                => /\ pc' = "idle"
                   /\ error_log' = Append(error_log, "fetch")
                   /\ cycle'.processed = {} /\ cycle'.sweeps = 0
                   /\ UNCHANGED <<blocked_ips, rate_limited_ips, alert_history, stats,
                                  sg_rules, last_call>>
          /\ (cycle.fetch_failed /\ cycle_count' = cycle_count)
                => UNCHANGED <<blocked_ips, rate_limited_ips, alert_history, stats,
                               sg_rules, last_call, cycle>>]_vars
    /\ \A k \in 1..(MaxLoopCycles - 1) :
            (pc = "idle" /\ cycle.fetch_failed /\ cycle_count = k)
                ~> (cycle_count = k + 1 \/ pc = "stopped")

\* The first cycle failed its fetch; the second one has run and blocked an
\* entity.
C11_Witness ==
    /\ error_log = <<"fetch">>
    /\ cycle_count = 2
    /\ ~cycle.fetch_failed
    /\ cycle.processed = {1}
    /\ last_call.ret = "BLOCK"
    /\ stats.total_blocks = 1

ActionsOf(level) ==
    IF level = "LOW" THEN {"LOG"}
    ELSE IF level = "MEDIUM" THEN {"ALERT"}
    ELSE IF level = "HIGH" THEN {"RATE_LIMIT"}
    ELSE {"BLOCK", "BLOCK_FAILED"}

\* C13. The agent classifies with inclusive lower bounds (CRITICAL from 0.8,
\* HIGH from 0.6, MEDIUM from 0.4, LOW below), and every take_action call
\* performs the action paired with the level assess_threat_level gives its
\* risk_score; the alert the call records carries that level.
C13_LevelMatchesAction ==
    [][Called("take_action")
        => LET r == last_call'.risk_score
               level == assess_threat_level(r)
           IN /\ (level = "CRITICAL") = (r >= 800)
              /\ (level = "HIGH") = (600 <= r /\ r < 800)
              /\ (level = "MEDIUM") = (400 <= r /\ r < 600)
              /\ (level = "LOW") = (r < 400)
              /\ last_call'.ret \in ActionsOf(level)
              /\ Len(alert_history') > Len(alert_history)
                    => /\ alert_history'[Len(alert_history')].threat_level = level
                       /\ alert_history'[Len(alert_history')].risk_score = r
                       /\ level # "LOW"]_vars

\* A score of exactly 0.6 has been rate limited and its alert says HIGH,
\* after a score of exactly 0.8 was blocked with an alert that says CRITICAL.
C13_Witness ==
    /\ last_call.op = "take_action"
    /\ last_call.risk_score = 600
    /\ last_call.ret = "RATE_LIMIT"
    /\ Len(alert_history) = 2
    /\ alert_history[1].risk_score = 800 /\ alert_history[1].threat_level = "CRITICAL"
    /\ alert_history[2].risk_score = 600 /\ alert_history[2].threat_level = "HIGH"

\* The levels, lowest first.
LevelRank(level) ==
    IF level = "LOW" THEN 0
    ELSE IF level = "MEDIUM" THEN 1
    ELSE IF level = "HIGH" THEN 2
    ELSE 3

\* C14. Threshold boundary mismatch: the level the agent gives a fused risk
\* is the level the fusion engine gave it, except when the risk is exactly
\* 0.4, 0.6 or 0.8, where the agent's level is one step higher (MEDIUM for
\* LOW, HIGH for MEDIUM, CRITICAL for HIGH); it is never lower.
C14_BoundaryMismatch ==
    (last_call.op = "assess_threat_level" /\ last_call.risk_score = fusion.final_risk)
    => LET r == fusion.final_risk
           f == LevelRank(fusion.level)
           c == LevelRank(last_call.ret)
       IN /\ fusion.level \in {"LOW", "MEDIUM", "HIGH", "CRITICAL"}
          /\ last_call.ret \in {"LOW", "MEDIUM", "HIGH", "CRITICAL"}
          /\ c >= f
          /\ IF r \in {400, 600, 800} THEN c = f + 1 ELSE c = f
          /\ r = 400 => (fusion.level = "LOW" /\ last_call.ret = "MEDIUM")
          /\ r = 600 => (fusion.level = "MEDIUM" /\ last_call.ret = "HIGH")
          /\ r = 800 => (fusion.level = "HIGH" /\ last_call.ret = "CRITICAL")

\* The fused risk 0.8 of (1.0, 0.5) is HIGH for the fusion engine and
\* CRITICAL for the agent.
C14_Witness ==
    /\ fusion = [network_risk |-> 1000, user_risk |-> 500, final_risk |-> 800, level |-> "HIGH"]
    /\ last_call.op = "assess_threat_level"
    /\ last_call.risk_score = 800
    /\ last_call.ret = "CRITICAL"

\* A step that is the take_action call of the scenario (network_risk,
\* user_risk) with the fused risk final_risk.
ScenarioCalled(network_risk, user_risk) ==
    /\ Called("take_action")
    /\ fusion'.network_risk = network_risk /\ fusion'.user_risk = user_risk
    /\ last_call'.risk_score = fusion'.final_risk

CountedAt(history, t) ==
    {i \in 1..Len(history) :
        /\ history[i].timestamp >= (t \div MinutesPerHour) * MinutesPerHour
        /\ history[i].final_risk >= email_threshold}

C17_AsStated ==
    [][(/\ now' = now
        /\ as_last_call'.op = "create_alert"
        /\ Len(as_alert_history') = Len(as_alert_history) + 1
        /\ as_alert_history'[Len(as_alert_history')].final_risk >= email_threshold)
        => (last_email' # "rate_limited")
             = (Cardinality(CountedAt(as_alert_history, now)) < max_emails_per_hour)]_vars

\* A step of the detection cycle in which the alert of an entry was created,
\* the limiter rejected its email, and the agent acted on the entry.
RejectedDuring ==
    /\ Called("take_action")
    /\ Len(as_alert_history') = Len(as_alert_history) + 1
    /\ last_email' = "rate_limited"

\* C18. A rejected admit suppresses only the alert side effect: when the
\* limiter rejects during a HIGH action, the entity is still recorded in the
\* rate-limited set with the current time, total_rate_limits still grows by
\* 1 and the action is still RATE_LIMIT; when it rejects during a CRITICAL
\* action whose EC2 call adds the rule, the BlockEntry is still inserted and
\* total_blocks still grows by 1.
C18_RejectedAdmit ==
    [][RejectedDuring
        => LET r == last_call'.risk_score
               ip == last_call'.ip
           IN /\ (600 <= r /\ r < 800)
                    => /\ last_call'.ret = "RATE_LIMIT"
                       /\ ip \in DOMAIN rate_limited_ips'
                       /\ rate_limited_ips'[ip] = now
                       /\ stats'.total_rate_limits = stats.total_rate_limits + 1
              /\ (r >= 800 /\ ip \notin sg_rules /\ ip \in sg_rules')
                    => /\ last_call'.ret = "BLOCK"
                       /\ ~DictHas(blocked_ips, ip)
                       /\ DictHas(blocked_ips', ip)
                       /\ DictGet(blocked_ips', ip).blocked_at = now
                       /\ stats'.total_blocks = stats.total_blocks + 1]_vars

\* The email of a CRITICAL entry was rejected and the entity was blocked all
\* the same, in the clock hour in which a HIGH entry had been rate limited.
C18_Witness ==
    /\ last_email = "rate_limited"
    /\ last_call.op = "take_action"
    /\ last_call.ret = "BLOCK"
    /\ Len(as_alert_history) = 2
    /\ as_alert_history[2].timestamp = now
    /\ DictHas(blocked_ips, last_call.ip)
    /\ stats.total_blocks = 1
    /\ stats.total_rate_limits = 1

\* C19. LOW action frame: a take_action call with a risk below 0.4 returns
\* LOG, makes no EC2 call and leaves the registry, the rate-limited set, the
\* alert history, the four counters and the security group unchanged; the
\* network risk 0.5 of an entity without a behaviour match is fused with the
\* default 0.1 to 0.34 and only logged.
C19_LowFrame ==
    [][/\ (Called("take_action") /\ last_call'.risk_score < 400)
            => /\ last_call'.ret = "LOG"
               /\ last_call'.calls = <<>>
               /\ UNCHANGED <<blocked_ips, rate_limited_ips, alert_history, stats, sg_rules>>
       /\ (/\ Called("take_action")
           /\ cycle'.processed # cycle.processed
           /\ network_results[idx].network_risk = 500
           /\ \A i \in 1..Len(user_results) : user_results[i].ip # network_results[idx].ip)
            => /\ fusion' = [network_risk |-> 500, user_risk |-> 100,
                             final_risk |-> 340, level |-> "LOW"]
               /\ last_call'.risk_score = 340
               /\ last_call'.ret = "LOG"]_vars

\* An entity that was blocked in the first cycle comes back in the second
\* with the network risk 0.5 and no behaviour match: it is logged, the block
\* and its alert are as they were.
C19_Witness ==
    /\ cycle_count = 2
    /\ fusion = [network_risk |-> 500, user_risk |-> 100, final_risk |-> 340, level |-> "LOW"]
    /\ last_call.op = "take_action"
    /\ last_call.risk_score = 340
    /\ last_call.ret = "LOG"
    /\ DictHas(blocked_ips, last_call.ip)
    /\ stats.total_blocks = 1 /\ stats.total_alerts = 1
    /\ Len(alert_history) = 1

\* C20. HIGH action: a take_action call with 0.6 <= risk < 0.8 returns
\* RATE_LIMIT, stores the current time for the entity in the rate-limited
\* set (over an earlier time; the other entities keep theirs), adds 1 to
\* total_rate_limits, records a HIGH alert and adds 1 to total_alerts, and
\* leaves the registry, total_blocks, total_unblocks and the security group
\* unchanged, without an EC2 call.
C20_HighAction ==
    [][\A ip \in Entities :
        (/\ Called("take_action")
         /\ last_call'.ip = ip
         /\ 600 <= last_call'.risk_score /\ last_call'.risk_score < 800)
        => /\ last_call'.ret = "RATE_LIMIT"
           /\ last_call'.calls = <<>>
           /\ DOMAIN rate_limited_ips' = DOMAIN rate_limited_ips \cup {ip}
           /\ rate_limited_ips'[ip] = now
           /\ \A x \in DOMAIN rate_limited_ips \ {ip} :
                    rate_limited_ips'[x] = rate_limited_ips[x]
           /\ stats' = [stats EXCEPT !.total_rate_limits = @ + 1, !.total_alerts = @ + 1]
           /\ Len(alert_history') = Len(alert_history) + 1
           /\ SubSeq(alert_history', 1, Len(alert_history)) = alert_history
           /\ alert_history'[Len(alert_history')].ip_address = ip
           /\ alert_history'[Len(alert_history')].timestamp = now
           /\ alert_history'[Len(alert_history')].threat_level = "HIGH"
           /\ UNCHANGED <<blocked_ips, sg_rules>>]_vars

\* An entity has been rate limited a second time, later than the first: the
\* set holds the later time, both calls are counted and both left an alert.
C20_Witness ==
    /\ last_call.op = "take_action"
    /\ last_call.ret = "RATE_LIMIT"
    /\ stats.total_rate_limits = 2 /\ stats.total_alerts = 2
    /\ DOMAIN rate_limited_ips = {last_call.ip}
    /\ rate_limited_ips[last_call.ip] = now
    /\ Len(alert_history) = 2
    /\ alert_history[1].ip_address = last_call.ip
    /\ alert_history[1].timestamp < now
    /\ alert_history[2].timestamp = now

\* The positions of the behaviour entries whose identifier equals ip.
MatchesOf(users, ip) == {i \in 1..Len(users) : users[i].ip = ip}

\* C21. Signal join: in a monitoring cycle, the pass of the for loop for a
\* network entry hands fusion the entry's network_risk and the user_risk of
\* the first behaviour entry (in list order) whose identifier equals the
\* entry's exactly, or 0.1 when there is none; take_action is then called
\* for that entry with the fused final_risk, once (at most one notification
\* is recorded), and the entries are taken in the order of the network list.
C21_SignalJoin ==
    [][(pc = "loop" /\ idx' = idx + 1)
        => LET net == network_results[idx]
               hits == MatchesOf(user_results, net.ip)
               first == CHOOSE i \in hits : \A j \in hits : i <= j
           IN /\ fusion'.network_risk = net.network_risk
              /\ fusion'.user_risk = IF hits = {} THEN 100 ELSE user_results[first].user_risk
              /\ last_call'.op = "take_action"
              /\ last_call'.ip = net.ip
              /\ last_call'.risk_score = fusion'.final_risk
              /\ Len(alert_history') <= Len(alert_history) + 1
              /\ cycle.processed = 1..(idx - 1)
              /\ cycle'.processed = 1..idx]_vars

\* The second entry of a network list has been joined with the first of two
\* behaviour entries of its entity, which carry different risks.
C21_Witness ==
    /\ pc = "loop"
    /\ idx = 3
    /\ cycle.processed = {1, 2}
    /\ Cardinality(MatchesOf(user_results, last_call.ip)) = 2
    /\ user_results[1].user_risk # user_results[2].user_risk
    /\ fusion.user_risk = user_results[1].user_risk
    /\ last_call.op = "take_action"
    /\ last_call.risk_score = fusion.final_risk

\* C22. Registry uniqueness: in every state reachable by take_action,
\* unblock and sweep calls the registry holds at most one BlockEntry per
\* entity, and the entity recorded in an entry is the key the entry is
\* stored under.
C22_RegistryUnique ==
    /\ \A i, j \in 1..Len(blocked_ips) : blocked_ips[i].key = blocked_ips[j].key => i = j
    /\ \A i \in 1..Len(blocked_ips) : blocked_ips[i].value.ip_address = blocked_ips[i].key

\* Both entities are blocked, one of them for the second time after an
\* unblock, and a further CRITICAL call for a blocked entity has returned.
C22_Witness ==
    /\ Len(blocked_ips) = 2
    /\ stats.total_blocks = 3
    /\ stats.total_unblocks = 1
    /\ last_call.op = "take_action"
    /\ last_call.ret = "BLOCK_FAILED"
    /\ DictHas(blocked_ips, last_call.ip)

\* The entities that have an entry in the registry.
BlockedEntities(d) == {d[i].key : i \in 1..Len(d)}

\* What get_statistics() reports as currently_blocked.
CurrentlyBlocked == get_statistics(Self, now).currently_blocked

\* C23. Statistics: no step of any sequence of operations decreases
\* total_blocks, total_unblocks, total_alerts or total_rate_limits or changes
\* start_time, and the currently_blocked that get_statistics reports is the
\* number of entities in the registry at that moment (before and after the
\* step).
C23_Statistics ==
    [][/\ stats'.total_blocks >= stats.total_blocks
       /\ stats'.total_unblocks >= stats.total_unblocks
       /\ stats'.total_alerts >= stats.total_alerts
       /\ stats'.total_rate_limits >= stats.total_rate_limits
       /\ stats'.start_time = stats.start_time
       /\ CurrentlyBlocked = Cardinality(BlockedEntities(blocked_ips))
       /\ CurrentlyBlocked' = Cardinality(BlockedEntities(blocked_ips'))]_vars

\* Every counter has moved, an unblock has emptied a place in the registry
\* and the clock has advanced since construction.
C23_Witness ==
    /\ stats.total_blocks = 2
    /\ stats.total_unblocks = 1
    /\ stats.total_alerts = 3
    /\ stats.total_rate_limits = 1
    /\ now > stats.start_time
    /\ CurrentlyBlocked = 1

\* C24. BlockEntry immutability: a step leaves every BlockEntry of the
\* registry as it is (blocked_at, risk_score and reason included) or removes
\* it, and it removes it only in an unblock or a sweep that revoked the
\* entity's rule; in particular a CRITICAL take_action call for a blocked
\* entity leaves blocked_at alone, so the entry still expires block_timeout
\* after the first block.
C24_Immutable ==
    [][/\ \A i \in 1..Len(blocked_ips) :
            LET e == blocked_ips[i] IN
            \/ e \in Range(blocked_ips')
            \/ /\ ~DictHas(blocked_ips', e.key)
               /\ last_call'.op \in {"unblock_ip_address", "check_and_unblock_expired"}
               /\ <<"revoke", e.key>> \in Range(last_call'.calls)
       /\ \A ip \in Entities :
            (/\ Called("take_action")
             /\ last_call'.ip = ip
             /\ last_call'.risk_score >= 800
             /\ DictHas(blocked_ips, ip))
            => /\ DictHas(blocked_ips', ip)
               /\ DictGet(blocked_ips', ip).blocked_at = DictGet(blocked_ips, ip).blocked_at
               /\ Range(expired_ips(Self, now))' = Range(expired_ips(Self, now))]_vars

\* A CRITICAL call for an entity blocked exactly block_timeout ago has
\* returned: the entry still carries the time of the first block.
C24_Witness ==
    /\ last_call.op = "take_action"
    /\ last_call.risk_score >= 800
    /\ last_call.ret = "BLOCK_FAILED"
    /\ DictHas(blocked_ips, last_call.ip)
    /\ now - DictGet(blocked_ips, last_call.ip).blocked_at = block_timeout_minutes

\* A step in which a monitoring cycle of the agent returns: from its for
\* loop, or from the except clause of a failed fetch.
CycleReturns ==
    /\ driver' = "agent"
    /\ pc' = "idle"
    /\ pc = "loop" \/ cycle_count' = cycle_count + 1

\* A step in which a revoke call of a sweep failed: the entry it was made
\* for is still in the registry.
RevokeFailed ==
    /\ pc = "loop"
    /\ last_call'.op = "check_and_unblock_expired"
    /\ \E ip \in Entities :
        <<"revoke", ip>> \in Range(last_call'.calls) /\ DictHas(blocked_ips', ip)

\* C25 as stated. Bounded staleness of lazy expiry: with the external revoke
\* succeeding, an entry whose nominal expiry (blocked_at + block_timeout) has
\* passed is out of the registry when the first cycle that ends after that
\* expiry returns, and a sweep never removes an entry before its nominal
\* expiry.
C25_AsStated ==
    [][/\ (CycleReturns /\ ~RevokeFailed)
            => \A i \in 1..Len(blocked_ips) :
                    SweptEntry(i) => ~DictHas(blocked_ips', blocked_ips[i].key)
       /\ Called("check_and_unblock_expired")
            => \A i \in 1..Len(blocked_ips) :
                    ~SweptEntry(i) => blocked_ips[i] \in Range(blocked_ips')]_vars

\* C26 as stated. Clean cancellation: when the loop has stopped on a stop
\* signal, the cycle that was in flight has completed (take_action was called
\* for every entry of its network list and its sweep ran; a cycle whose
\* fetch or whose entry failed apart) and no further cycle was started. The
\* statistics are displayed in the step that stops the loop.
C26_AsStated ==
    [][/\ (/\ pc' = "stopped"
           /\ cycle_count' > 0
           /\ ~cycle'.fetch_failed
           /\ cycle'.entry_failed = {})
            => /\ cycle'.processed = 1..Len(network_results')
               /\ cycle'.sweeps = 1
       /\ (pc = "stopped") => (cycle_count' = cycle_count)]_vars

\* C27 as stated. Mutual exclusion: with the agent shared by two threads,
\* the block of an entity is not issued to EC2 while a concurrent call of the
\* other thread has issued it already (two concurrent CRITICAL calls for one
\* entity call EC2 at most once), a block is counted at most once per entry
\* of the registry, and the sweep never meets a registry that another call
\* has changed under its iteration.
C27_AsStated ==
    [][/\ \A t, u \in Threads :
            (/\ threads[t].pc = "authorize"
             /\ threads'[t].pc # "authorize"
             /\ u # t
             /\ threads[u].ip = threads[t].ip)
            => threads[u].pc # "track"
       /\ stats'.total_blocks - stats'.total_unblocks = Len(blocked_ips')
       /\ last_call' # last_call => last_call'.ret # "RuntimeError"]_vars

\* C28 as stated. Configuration validation: an agent with a negative
\* monitoring_interval runs no monitoring cycle, no take_action and no
\* external call (the constructor has rejected the configuration).
C28_AsStated ==
    monitoring_interval < 0
    => /\ cycle_count = 0
       /\ last_call.op = "__init__"
       /\ last_call.calls = <<>>

\* C29. Only unblock removes a block: a step that takes a BlockEntry out of
\* the registry is an unblock or a sweep; a take_action call, at any risk,
\* keeps every entry of the registry as it is and in its place; a sweep
\* keeps every entry that has not expired and leaves the notification
\* history, the rate-limited set, total_blocks, total_alerts and
\* total_rate_limits unchanged.
C29_OnlyUnblockRemoves ==
    [][/\ (\E i \in 1..Len(blocked_ips) : blocked_ips[i] \notin Range(blocked_ips'))
            => last_call'.op \in {"unblock_ip_address", "check_and_unblock_expired"}
       /\ Called("take_action")
            => /\ Len(blocked_ips') >= Len(blocked_ips)
               /\ SubSeq(blocked_ips', 1, Len(blocked_ips)) = blocked_ips
       /\ Called("check_and_unblock_expired")
            => /\ \A i \in 1..Len(blocked_ips) :
                    ~SweptEntry(i) => blocked_ips[i] \in Range(blocked_ips')
               /\ alert_history' = alert_history
               /\ rate_limited_ips' = rate_limited_ips
               /\ stats'.total_blocks = stats.total_blocks
               /\ stats'.total_alerts = stats.total_alerts
               /\ stats'.total_rate_limits = stats.total_rate_limits]_vars

\* An entity blocked earlier has scored MEDIUM and, before that, HIGH (it
\* is rate limited too): it is still blocked, under its first entry.
C29_Witness ==
    /\ last_call.op = "take_action"
    /\ last_call.ret = "ALERT"
    /\ DictHas(blocked_ips, last_call.ip)
    /\ DictGet(blocked_ips, last_call.ip).blocked_at < now
    /\ last_call.ip \in DOMAIN rate_limited_ips
    /\ rate_limited_ips[last_call.ip] > DictGet(blocked_ips, last_call.ip).blocked_at

\* A step in which a rule left the security group without a call on the
\* agent: every call of the agent that changes the group changes the
\* registry as well, and with it the outcome of the same call made again.
RemovedBehind == last_call' = last_call /\ sg_rules' # sg_rules

\* The revoke call a step made for ip failed: the rule was not there, or it
\* is still there.
RevokeFailedFor(ip) ==
    /\ <<"revoke", ip>> \in Range(last_call'.calls)
    /\ ip \notin sg_rules \/ ip \in sg_rules'

\* C30. Unblock failure keeps state: an unblock of a blocked entity whose
\* revoke call is answered with an error (a rule that is not found
\* included) returns False without raising and leaves the registry and
\* total_unblocks as they were; every sweep makes a revoke call for every
\* expired entry of the registry, also for one whose revoke failed before,
\* keeps the entries whose revoke failed, and raises total_unblocks by the
\* number of entries it removes.
C30_UnblockFailure ==
    [][~RemovedBehind
        => /\ \A ip \in Entities :
                (/\ Called("unblock_ip_address")
                 /\ last_call'.ip = ip
                 /\ DictHas(blocked_ips, ip)
                 /\ RevokeFailedFor(ip))
                => /\ last_call'.ret = "False"
                   /\ last_call'.calls = <<<<"revoke", ip>>>>
                   /\ blocked_ips' = blocked_ips
                   /\ stats' = stats
                   /\ sg_rules' = sg_rules
           /\ Called("check_and_unblock_expired")
                => /\ last_call'.ret = "None"
                   /\ \A i \in 1..Len(blocked_ips) :
                        SweptEntry(i)
                            => <<"revoke", blocked_ips[i].key>> \in Range(last_call'.calls)
                   /\ \A ip \in Entities :
                        RevokeFailedFor(ip)
                            => /\ DictHas(blocked_ips', ip)
                               /\ DictGet(blocked_ips', ip) = DictGet(blocked_ips, ip)
                   /\ stats'.total_unblocks - stats.total_unblocks
                        = Len(blocked_ips) - Len(blocked_ips')
                   /\ stats'.total_unblocks - stats.total_unblocks
                        = Cardinality({ip \in Entities :
                                        /\ <<"revoke", ip>> \in Range(last_call'.calls)
                                        /\ ~RevokeFailedFor(ip)})]_vars

\* A sweep has made a revoke call for each of two expired entries: one rule
\* was not found and its entry is still in the registry, the other entry is
\* gone and counted.
C30_Witness ==
    /\ last_call.op = "check_and_unblock_expired"
    /\ Len(last_call.calls) = 2
    /\ Len(blocked_ips) = 1
    /\ blocked_ips[1].key \notin sg_rules
    /\ now - blocked_ips[1].value.blocked_at > block_timeout_minutes
    /\ stats.total_blocks = 2
    /\ stats.total_unblocks = 1

\* C31 as stated. Registry mirrors the firewall: when a CRITICAL take_action
\* call for an entity has completed, the entity has an entry in the registry
\* exactly when the security group holds its deny rule, also when the block
\* call was answered with a duplicate-rule condition.
C31_AsStated ==
    (last_call.op = "take_action" /\ last_call.risk_score >= 800)
        => (last_call.ip \in sg_rules <=> DictHas(blocked_ips, last_call.ip))

\* C32. Counter conservation: in every state reachable by take_action,
\* unblock and sweep calls, with EC2 calls succeeding or failing, the number
\* of entries in the registry is total_blocks minus total_unblocks, and
\* total_unblocks does not exceed total_blocks.
C32_Conservation ==
    /\ Len(blocked_ips) = stats.total_blocks - stats.total_unblocks
    /\ stats.total_unblocks <= stats.total_blocks

\* Blocks and unblocks have been counted, the last unblock failed at EC2 and
\* its entry is still in the registry.
C32_Witness ==
    /\ last_call.op = "unblock_ip_address"
    /\ last_call.ret = "False"
    /\ last_call.calls = <<<<"revoke", last_call.ip>>>>
    /\ stats.total_blocks = 3
    /\ stats.total_unblocks = 2
    /\ Len(blocked_ips) = 1

\* C33 as stated. Reachability of BLOCK through the monitoring cycle: a
\* network entry without a matching behaviour entry is fused to at most 0.64
\* and gets RATE_LIMIT at most, an entry with network_risk 0 is never more
\* than logged whatever its user_risk, and a block attempt requires a
\* matched behaviour entry.
C33_AsStated ==
    [][(pc = "loop" /\ driver = "agent" /\ idx' = idx + 1)
        => LET net == network_results[idx]
               hits == MatchesOf(user_results, net.ip)
           IN /\ hits = {} => /\ fusion'.final_risk <= 640
                              /\ last_call'.ret \in {"LOG", "ALERT", "RATE_LIMIT"}
              /\ net.network_risk = 0 => last_call'.ret = "LOG"
              /\ last_call'.ret \in {"BLOCK", "BLOCK_FAILED"} => hits # {}]_vars

\* C33 as amended. A network entry without a matching behaviour entry is
\* fused to at most 0.64 and gets RATE_LIMIT at most; an entry with
\* network_risk 0 is fused to at most 0.4 and is logged, except with
\* user_risk 1.0, where the fused risk is 0.4 and the action is ALERT; a
\* block attempt requires a matched behaviour entry.
C33_Reachability ==
    [][(pc = "loop" /\ driver = "agent" /\ idx' = idx + 1)
        => LET net == network_results[idx]
               hits == MatchesOf(user_results, net.ip)
           IN /\ hits = {} => /\ fusion'.final_risk <= 640
                              /\ last_call'.ret \in {"LOG", "ALERT", "RATE_LIMIT"}
              /\ net.network_risk = 0
                    => /\ fusion'.final_risk <= 400
                       /\ last_call'.ret = IF fusion'.user_risk = 1000 THEN "ALERT" ELSE "LOG"
              /\ last_call'.ret \in {"BLOCK", "BLOCK_FAILED"} => hits # {}]_vars

\* The cycle has sent an alert for an entity with network_risk 0 and
\* user_risk 1.0, fused to 0.4.
C33_Witness ==
    /\ driver = "agent"
    /\ cycle.processed = {1}
    /\ fusion.network_risk = 0
    /\ fusion.user_risk = 1000
    /\ fusion.final_risk = 400
    /\ last_call.ret = "ALERT"
    /\ stats.total_alerts = 1


\* The entity has an entry in the registry whose timeout has passed.
BlockExpired(ip) == ip \in Range(expired_ips(Self, now))

\* C34 as stated. Every block is eventually reversed: in a loop that keeps
\* running, with a revoke that goes through in the end, a registry entry
\* whose timeout has passed is eventually removed and its rule revoked,
\* whatever the collaborators report or fail to report meanwhile.
C34_AsStated ==
    \A ip \in Entities :
        BlockExpired(ip) ~> (~DictHas(blocked_ips, ip) /\ ip \notin sg_rules)


\* C35. Re-block after expiry: once the BlockEntry of the entity has been
\* removed by unblock or by the sweep, a CRITICAL take_action for it calls
\* authorize_security_group_ingress again and, when the call goes through
\* (the rule is in the group afterwards), appends a fresh BlockEntry whose
\* blocked_at is the time of the call, increments total_blocks and returns
\* BLOCK; a refused call leaves the registry and the counters as they were.
C35_Reblock ==
    [][(/\ Called("take_action")
        /\ last_call'.risk_score >= 800
        /\ stats.total_unblocks > 0
        /\ ~DictHas(blocked_ips, last_call'.ip))
        => LET ip == last_call'.ip IN
           /\ ip \notin sg_rules
           /\ last_call'.calls = <<<<"authorize", ip>>>>
           /\ last_call'.ret = IF ip \in sg_rules' THEN "BLOCK" ELSE "BLOCK_FAILED"
           /\ (last_call'.ret = "BLOCK")
                => /\ blocked_ips' = Append(blocked_ips,
                                            [key |-> ip,
                                             value |-> BlockedIP(ip, now, last_call'.risk_score)])
                   /\ stats'.total_blocks = stats.total_blocks + 1
                   /\ stats'.total_unblocks = stats.total_unblocks
           /\ (last_call'.ret = "BLOCK_FAILED")
                => /\ blocked_ips' = blocked_ips
                   /\ stats' = stats]_vars

\* The entity is blocked for the third time, twice after a removal, under
\* an entry made at the time of the last call.
C35_Witness ==
    /\ last_call.op = "take_action"
    /\ last_call.ret = "BLOCK"
    /\ stats.total_blocks = 3
    /\ stats.total_unblocks = 2
    /\ Len(blocked_ips) = 1
    /\ blocked_ips[1].key = last_call.ip
    /\ blocked_ips[1].value.blocked_at = now
    /\ now > StartTime


\* The step stays within one clock hour.
SameClockHour == now' \div MinutesPerHour = now \div MinutesPerHour

C37_AsStated ==
    [][(/\ pc = "loop" /\ driver = "system"
        /\ idx' = idx + 1
        /\ Len(as_alert_history') = Len(as_alert_history) + 1)
        => LET alert == as_alert_history'[Len(as_alert_history')] IN
           /\ alert.threat_level = fusion'.level
           /\ alert.threat_level \in {"MEDIUM", "HIGH", "CRITICAL"}
           /\ (last_email' # "none") => (alert.threat_level \in {"HIGH", "CRITICAL"})]_vars

====
